---- MODULE Spec2Model ----
(***************************************************************************)
(* Tree commands of OpenTTD (tree_cmd.cpp): CmdPlantTree, ClearTile_Trees, *)
(* PlaceTreeGroupAroundTile, TileLoop_Trees and OnTick_Trees, run under    *)
(* the two-phase (test, then execute) command protocol.                    *)
(*                                                                         *)
(* The map is a small grid of tiles.  A tile is a record holding the tile  *)
(* type and the packed sub-state the tree code reads and writes.  The      *)
(* company, the two random streams and the static caches of tree_cmd.cpp   *)
(* are the remaining state.                                                *)
(***************************************************************************)
EXTENDS Integers, Sequences, FiniteSets, TLC

VARIABLES
    _settings_game,     \* the game settings read by tree_cmd.cpp
    _game_mode,         \* "GM_NORMAL" or "GM_EDITOR"
    _current_company,   \* who issues the commands
    _price,             \* the price table entries used here
    _m,                 \* the map: tile index -> tile record
    tree_limit,         \* Company::tree_limit, quota in the upper 16 bits
    _random,            \* state of the synchronized random stream
    _interactive_random,\* state of the interactive random stream
    _previous_trees_around_snow_line_range, \* static cache key
    _arctic_tree_occurance,                 \* static cache table
    _tick_counter,      \* ticks of the game loop
    _trees_tick_ctr,    \* byte counter of DecrementTreeCounter
    pc,                 \* dispatcher phase
    cmd,                \* the descriptor being processed
    res_test,           \* Cost/Result of the test run
    res_exec,           \* Cost/Result of the execute run
    ncmds,              \* commands submitted so far
    ntests,             \* test runs made of the descriptor being processed
    peer,               \* a second, independent run of the engine
    _sounds,            \* the pool of sounds of newgrf_sound.cpp
    grf_files,          \* the GRF files that brought sounds of their own
    played,             \* what the last request for a sound effect led to
    load                \* LoadNewGRFSound at work: its locals and its entry

vars == <<_settings_game, _game_mode, _current_company, _price, _m, tree_limit,
          _random, _interactive_random, _previous_trees_around_snow_line_range,
          _arctic_tree_occurance, _tick_counter, _trees_tick_ctr,
          pc, cmd, res_test, res_exec, ncmds, ntests, peer,
          _sounds, grf_files, played, load>>

-----------------------------------------------------------------------------
(* Bounds of the model.                                                    *)

\* Width and height of the map.
MapSizeX == 2
MapSizeY == 2
\* Commands submitted one after the other in one run.
MaxCmds == 6
\* Operations applied to two runs side by side.
MaxSteps == 2
\* Results composed into one accumulated cost.
MaxAdds == 3
\* Test runs the dispatcher makes of one descriptor before executing it.
MaxTests == 2
\* Trees of a group placed in the scenario editor.
GroupCount == 2
\* Slots of the sound pool allocated after the sounds of the original game,
\* and GRF files that bring sounds.
MaxSounds == 4
MaxGRFFiles == 2
\* The largest size a RIFF header declares.
MaxTotalSize == 44
\* Snow line settings of the arctic climate: the height of the snow line
\* and the range around it in which trees thin out.
SnowLineHeight == 2
SnowLineRange == 2

MapSize == MapSizeX * MapSizeY
Tiles == 0 .. (MapSize - 1)
TileX(t) == t % MapSizeX
TileY(t) == t \div MapSizeX
TileXY(x, y) == y * MapSizeX + x

-----------------------------------------------------------------------------
(* Integer helpers of core/bitmath_func.hpp and core/math_func.hpp.        *)

Pow2(n) == 2 ^ n
U16 == Pow2(16)

\* GB(x, s, n): n bits of x starting at bit s, for x below 2^31.
GB(x, s, n) == (x \div Pow2(s)) % Pow2(n)

\* IsInsideBS(x, base, size): (uint)(x - base) < size.  The unsigned
\* difference of an x below base is at least 2^31, above every size used.
IsInsideBS(x, base, size) == x - base >= 0 /\ x - base < size

\* IsInsideMM(x, min, max): (uint)(x - min) < (max - min).
IsInsideMM(x, min, max) == x - min >= 0 /\ x - min < max - min

Min(a, b) == IF a < b THEN a ELSE b
Max(a, b) == IF a > b THEN a ELSE b

\* A uint32 is kept as its two 16-bit halves, so that no intermediate value
\* leaves the range of the checker's integers.
U32Of(hi, lo) == [hi |-> hi, lo |-> lo]

\* (uint32)n for an integer n of small magnitude.
ToU32(n) ==
    IF n >= 0 THEN U32Of((n \div U16) % U16, n % U16)
    ELSE U32Of((U16 - 1) - ((((-n) - 1) \div U16) % U16), (U16 - 1) - (((-n) - 1) % U16))

\* The product of two 16-bit numbers as a uint32.
Mul16(a, b) ==
    LET t1 == a * (b % 256)
        t2 == a * (b \div 256)
        s  == (t2 % 256) * 256 + t1
    IN  U32Of((t2 \div 256) + (s \div U16), s % U16)

\* a * b on 32 bits.
U32Mul(a, b) ==
    LET ll == Mul16(a.lo, b.lo)
    IN  U32Of((ll.hi + Mul16(a.hi, b.lo).lo + Mul16(a.lo, b.hi).lo) % U16, ll.lo)

\* a >> 16 and a >> 24 on 32 bits.
U32Shr16(a) == U32Of(0, a.hi)
U32Shr24(a) == U32Of(0, a.hi \div 256)

\* a - (1 << 16) on 32 bits.
U32SubHigh(a) == U32Of((a.hi - 1) % U16, a.lo)

\* a + b, a - b and a < b on 32 bits.
U32Add(a, b) == U32Of((a.hi + b.hi + ((a.lo + b.lo) \div U16)) % U16, (a.lo + b.lo) % U16)
U32Sub(a, b) ==
    U32Of((a.hi - b.hi - (IF a.lo < b.lo THEN 1 ELSE 0)) % U16, (a.lo - b.lo) % U16)
U32Less(a, b) == a.hi < b.hi \/ (a.hi = b.hi /\ a.lo < b.lo)

\* GB(x, s, n) of a uint32, for a field that lies within one half.
GB32(x, s, n) == IF s >= 16 THEN GB(x.hi, s - 16, n) ELSE GB(x.lo, s, n)

-----------------------------------------------------------------------------
(* Enumerations.                                                           *)

\* enum TreePlacer
TP_NONE == 0
TP_ORIGINAL == 1
TP_IMPROVED == 2
TP_PERFECT == 3

\* enum ExtraTreePlacement
ETP_NO_SPREAD == 0
ETP_SPREAD_RAINFOREST == 1
ETP_SPREAD_ALL == 2
ETP_NO_GROWTH_NO_SPREAD == 3

\* enum TreeType (tree_map.h)
TREE_TEMPERATE == 0
TREE_SUB_ARCTIC == 12
TREE_RAINFOREST == 20
TREE_CACTUS == 27
TREE_SUB_TROPICAL == 28
TREE_TOYLAND == 32
TREE_INVALID == 255

TREE_COUNT_TEMPERATE == TREE_SUB_ARCTIC - TREE_TEMPERATE
TREE_COUNT_SUB_ARCTIC == TREE_RAINFOREST - TREE_SUB_ARCTIC
TREE_COUNT_RAINFOREST == TREE_CACTUS - TREE_RAINFOREST
TREE_COUNT_SUB_TROPICAL == TREE_TOYLAND - TREE_SUB_TROPICAL
TREE_COUNT_TOYLAND == 9

\* Base tree type and number of tree types of each climate.
_tree_base_by_landscape(l) ==
    CASE l = "LT_TEMPERATE" -> TREE_TEMPERATE
      [] l = "LT_ARCTIC"    -> TREE_SUB_ARCTIC
      [] l = "LT_TROPIC"    -> TREE_RAINFOREST
      [] OTHER              -> TREE_TOYLAND

_tree_count_by_landscape(l) ==
    CASE l = "LT_TEMPERATE" -> TREE_COUNT_TEMPERATE
      [] l = "LT_ARCTIC"    -> TREE_COUNT_SUB_ARCTIC
      [] l = "LT_TROPIC"    -> TREE_COUNT_RAINFOREST + 1 + TREE_COUNT_SUB_TROPICAL
      [] OTHER              -> TREE_COUNT_TOYLAND

INT32_MAX == 2147483647

\* INVALID_STRING_ID, the message of a failure that names no reason.
INVALID_STRING_ID == "INVALID_STRING_ID"

-----------------------------------------------------------------------------
(* Cost/Result values (class CommandCost).                                 *)

\* CommandCost(ex_ty): a successful result of zero cost.
CommandCost(ex_ty) ==
    [success |-> TRUE, cost |-> 0, message |-> INVALID_STRING_ID, expense_type |-> ex_ty]

\* CommandCost(ex_ty, cst): a successful result of the given cost.
CommandCostOf(ex_ty, cst) ==
    [success |-> TRUE, cost |-> cst, message |-> INVALID_STRING_ID, expense_type |-> ex_ty]

\* return_cmd_error(msg): a failure with the given reason and no cost.
CommandError(msg) ==
    [success |-> FALSE, cost |-> 0, message |-> msg, expense_type |-> "INVALID_EXPENSES"]

CMD_ERROR == CommandError(INVALID_STRING_ID)

Succeeded(c) == c.success
Failed(c) == ~c.success

\* CommandCost::AddCost(const Money &)
AddMoney(c, money) == [c EXCEPT !.cost = @ + money]

\* The reason of the failure composed last replaces the one already held.
AddCostLastFailure(c, ret) ==
    [c EXCEPT !.cost = @ + ret.cost,
              !.success = c.success /\ ret.success,
              !.message = IF ~ret.success THEN ret.message ELSE @]

\* CommandCost::AddCost(const CommandCost &): money is summed and the first
\* failure is kept.
AddCost(c, ret) ==
    [c EXCEPT !.cost = @ + ret.cost,
              !.success = c.success /\ ret.success,
              !.message = IF c.success /\ ~ret.success THEN ret.message ELSE @]

-----------------------------------------------------------------------------
(* Tiles (map.h, tile_map.h, clear_map.h, tree_map.h, water_map.h).        *)
(*                                                                         *)
(* A tile record has the fields                                            *)
(*   type      "MP_CLEAR", "MP_WATER", "MP_TREES" or "MP_HOUSE"            *)
(*   ground    raw ClearGround of a clear tile, TreeGround of a tree tile  *)
(*   snow      IsSnowTile of a clear tile                                  *)
(*   density   ground density, 0..3                                        *)
(*   treetype  tree species of a tree tile                                 *)
(*   m5        packed byte of a tree tile: stems - 1 in bits 6..7, growth  *)
(*             in bits 0..2                                                *)
(*   tropic    tropic zone                                                 *)
(*   z         GetTileZ                                                    *)
(*   bridge    IsBridgeAbove                                               *)
(*   coast     IsCoast of a water tile                                     *)
(*   corner    IsSlopeWithOneCornerRaised(GetTileSlope)                    *)
(*   clear_denied  the clear-land command is rejected on this tile         *)
(***************************************************************************)

GetTileType(m, t) == m[t].type
IsTileType(m, t, ty) == m[t].type = ty
GetTileZ(m, t) == m[t].z
GetTropicZone(m, t) == m[t].tropic
IsBridgeAbove(m, t) == m[t].bridge
IsCoast(m, t) == m[t].coast
IsSlopeWithOneCornerRaised(m, t) == m[t].corner

\* clear_map.h
IsSnowTile(m, t) == m[t].snow
GetRawClearGround(m, t) == m[t].ground
GetClearGround(m, t) == IF IsSnowTile(m, t) THEN "CLEAR_SNOW" ELSE GetRawClearGround(m, t)
IsClearGround(m, t, ct) == GetClearGround(m, t) = ct
GetClearDensity(m, t) == m[t].density

\* tree_map.h
GetTreeType(m, t) == m[t].treetype
GetTreeGround(m, t) == m[t].ground
GetTreeDensity(m, t) == m[t].density
GetTreeCount(m, t) == GB(m[t].m5, 6, 2) + 1
GetTreeGrowth(m, t) == GB(m[t].m5, 0, 3)

\* AddTreeCount(t, c): _m[t].m5 += c << 6, on a byte.
AddTreeCount(m, t, c) == [m EXCEPT ![t].m5 = (@ + c * 64) % 256]
\* AddTreeGrowth(t, a): _m[t].m5 += a, on a byte.
AddTreeGrowth(m, t, a) == [m EXCEPT ![t].m5 = (@ + a) % 256]
\* SetTreeGrowth(t, g): SB(_m[t].m5, 0, 3, g).
SetTreeGrowth(m, t, g) == [m EXCEPT ![t].m5 = (@ - GB(@, 0, 3)) + g]
SetTreeGroundDensity(m, t, g, d) == [m EXCEPT ![t].ground = g, ![t].density = d]
SetTropicZone(m, t, zone) == [m EXCEPT ![t].tropic = zone]

\* MakeTree(t, type, count, growth, ground, density): count is stems - 1.
MakeTree(m, t, treetype, count, growth, ground, density) ==
    [m EXCEPT ![t] = [@ EXCEPT !.type = "MP_TREES", !.ground = ground, !.snow = FALSE,
                               !.density = density, !.treetype = treetype,
                               !.m5 = count * 64 + growth,
                               !.bridge = FALSE, !.coast = FALSE, !.clear_denied = FALSE]]

\* MakeClear(t, g, density)
MakeClear(m, t, g, density) ==
    [m EXCEPT ![t] = [@ EXCEPT !.type = "MP_CLEAR", !.ground = g, !.snow = FALSE,
                               !.density = density, !.treetype = 0, !.m5 = 0,
                               !.bridge = FALSE, !.coast = FALSE, !.clear_denied = FALSE]]

\* MakeSnow(t, density) on a clear tile.
MakeSnow(m, t, density) == [m EXCEPT ![t].snow = TRUE, ![t].density = density]

\* MakeShore(t)
MakeShore(m, t) ==
    [m EXCEPT ![t] = [@ EXCEPT !.type = "MP_WATER", !.ground = "CLEAR_GRASS", !.snow = FALSE,
                               !.density = 0, !.treetype = 0, !.m5 = 0,
                               !.bridge = FALSE, !.coast = TRUE, !.clear_denied = FALSE]]

\* DoClearSquare(t): MakeClear(t, CLEAR_GRASS, 0) outside world generation.
DoClearSquare(m, t) == MakeClear(m, t, "CLEAR_GRASS", 0)

-----------------------------------------------------------------------------
(* The world a handler works on: the map, the company's quota, the two     *)
(* random streams and the static cache of tree_cmd.cpp.                    *)

World == [m |-> _m, tree_limit |-> tree_limit, random |-> _random,
          interactive |-> _interactive_random,
          prev_range |-> _previous_trees_around_snow_line_range,
          occ |-> _arctic_tree_occurance,
          tick_counter |-> _tick_counter, trees_tick_ctr |-> _trees_tick_ctr]

\* A sample of the output of the generator behind Random() and
\* InteractiveRandom(): each word is seed byte, byte 2, low 16 bits.
Word(seed, mid, low) == U32Of(seed * 256 + mid, low)
RandomWords == << Word(0, 0, 1), Word(200, 3, 4113), Word(100, 70, 2), Word(255, 255, 4368),
                  Word(240, 230, 65535), Word(13, 6, 5), Word(60, 128, 3858), Word(150, 64, 3) >>
RandomPeriod == Len(RandomWords)

\* Random(): the draw and the stream state after it.
RandomValue(state) == RandomWords[state + 1]
RandomNext(state) == (state + 1) % RandomPeriod

\* RandomRange(limit): ((uint64)Random() * limit) >> 32.
RandomRangeValue(state, limit) ==
    LET r == RandomValue(state)
    IN  (r.hi * limit + (r.lo * limit) \div U16) \div U16

\* RandomTileSeed(r): TILE_MASK(r).
RandomTileSeed(r) == ((r.hi % MapSize) * (U16 % MapSize) + r.lo) % MapSize

-----------------------------------------------------------------------------
(* Snow line (landscape.cpp) and height helpers.                           *)

GetSnowLine == _settings_game.snow_line_height
HighestTreePlacementSnowLine == _settings_game.snow_line_height
LowestTreePlacementSnowLine == _settings_game.snow_line_height

-----------------------------------------------------------------------------
(* tree_cmd.cpp: helpers.                                                  *)

\* CanPlantTreesOnTile(tile, allow_desert)
CanPlantTreesOnTile(m, tile, allow_desert) ==
    IF /\ _settings_game.tree_placer = TP_PERFECT
       /\ _settings_game.landscape = "LT_ARCTIC"
       /\ GetTileZ(m, tile) > HighestTreePlacementSnowLine
                               + _settings_game.trees_around_snow_line_range
    THEN FALSE
    ELSE CASE GetTileType(m, tile) = "MP_WATER" ->
                  /\ ~IsBridgeAbove(m, tile)
                  /\ IsCoast(m, tile)
                  /\ ~IsSlopeWithOneCornerRaised(m, tile)
           [] GetTileType(m, tile) = "MP_CLEAR" ->
                  /\ ~IsBridgeAbove(m, tile)
                  /\ ~IsClearGround(m, tile, "CLEAR_FIELDS")
                  /\ GetRawClearGround(m, tile) # "CLEAR_ROCKS"
                  /\ (allow_desert \/ ~IsClearGround(m, tile, "CLEAR_DESERT"))
           [] OTHER -> FALSE

\* The density of the ground is not looked at: the trees stand on ground of
\* full density.
PlantTreesOnTileFullDensity(m, tile, treetype, count, growth) ==
    MakeTree(m, tile, treetype, count, growth,
             IF GetTileType(m, tile) = "MP_WATER" THEN "TREE_GROUND_SHORE"
             ELSE CASE GetClearGround(m, tile) = "CLEAR_GRASS" -> "TREE_GROUND_GRASS"
                    [] GetClearGround(m, tile) = "CLEAR_ROUGH" -> "TREE_GROUND_ROUGH"
                    [] GetClearGround(m, tile) = "CLEAR_SNOW" ->
                           IF GetRawClearGround(m, tile) = "CLEAR_ROUGH"
                           THEN "TREE_GROUND_ROUGH_SNOW" ELSE "TREE_GROUND_SNOW_DESERT"
                    [] OTHER -> "TREE_GROUND_SNOW_DESERT",
             3)

\* PlantTreesOnTile(tile, treetype, count, growth): ground type and density
\* are kept.
PlantTreesOnTile(m, tile, treetype, count, growth) ==
    LET ground ==
            IF GetTileType(m, tile) = "MP_WATER" THEN "TREE_GROUND_SHORE"
            ELSE CASE GetClearGround(m, tile) = "CLEAR_GRASS" -> "TREE_GROUND_GRASS"
                   [] GetClearGround(m, tile) = "CLEAR_ROUGH" -> "TREE_GROUND_ROUGH"
                   [] GetClearGround(m, tile) = "CLEAR_SNOW" ->
                          IF GetRawClearGround(m, tile) = "CLEAR_ROUGH"
                          THEN "TREE_GROUND_ROUGH_SNOW" ELSE "TREE_GROUND_SNOW_DESERT"
                   [] OTHER -> "TREE_GROUND_SNOW_DESERT"
        density ==
            IF GetTileType(m, tile) = "MP_CLEAR" /\ GetClearGround(m, tile) # "CLEAR_ROUGH"
            THEN GetClearDensity(m, tile) ELSE 3
    IN  MakeTree(m, tile, treetype, count, growth, ground, density)

\* The arithmetic of one entry on 32 bits: x*x, *x, *x, >>16, *x, *x, >>24.
ArcticOccurancePower(x) ==
    U32Shr24(U32Mul(U32Mul(U32Shr16(U32Mul(U32Mul(U32Mul(x, x), x), x)), x), x)).lo

\* One entry of the arctic table: ((256 - 128 * i / range) ** 6) >> 40,
\* computed in 32 bits as the code does.
ArcticOccuranceEntry(i, range) == ArcticOccurancePower(ToU32(256 - ((128 * i) \div range)))

\* The loop "for (uint i = 1; i < 256; i++)": entries are pushed up to the
\* first i whose output is 0.
ArcticOccuranceFirstZero(outputs) ==
    IF \E i \in DOMAIN outputs : outputs[i] = 0
    THEN CHOOSE i \in DOMAIN outputs :
             outputs[i] = 0 /\ \A j \in DOMAIN outputs : outputs[j] = 0 => i <= j
    ELSE Len(outputs) + 1

ArcticOccurancePushed(outputs) ==
    <<255>> \o SubSeq(outputs, 1, ArcticOccuranceFirstZero(outputs) - 1)

ArcticOccuranceTable(range) ==
    ArcticOccurancePushed([i \in 1 .. 255 |-> ArcticOccuranceEntry(i, range) % 256])

\* The tables of the ranges the settings take, computed once.
SnowLineRanges == {1, SnowLineRange}
ArcticOccuranceTables == [range \in SnowLineRanges |-> ArcticOccuranceTable(range)]

\* RecalculateArcticTreeOccuranceArray(): the new cache key and table.
RecalculateArcticTreeOccuranceArray(w) ==
    LET range == _settings_game.trees_around_snow_line_range
    IN  [w EXCEPT !.prev_range = range,
                  !.occ = IF range = 0 THEN <<255>>
                          ELSE IF range \in SnowLineRanges THEN ArcticOccuranceTables[range]
                          ELSE ArcticOccuranceTable(range)]

\* The cached table is used whatever the range setting is.
RefreshArcticTreeOccuranceNever(w) == w

\* if (range != _previous_trees_around_snow_line_range) Recalculate...()
RefreshArcticTreeOccurance(w) ==
    IF _settings_game.trees_around_snow_line_range # w.prev_range
    THEN RecalculateArcticTreeOccuranceArray(w) ELSE w

\* seed * count / 256 + base
SeededTree(seed, count, base) == (seed * count) \div 256 + base

\* int height_above_snow_line of GetRandomTreeType.
HeightAboveSnowLine(z) ==
    IF z > HighestTreePlacementSnowLine THEN z - HighestTreePlacementSnowLine
    ELSE IF z < LowestTreePlacementSnowLine THEN z - LowestTreePlacementSnowLine
    ELSE 0

\* uint normalised_distance of GetRandomTreeType.
NormalisedDistance(height_above_snow_line) ==
    IF height_above_snow_line < 0 THEN -height_above_snow_line ELSE height_above_snow_line + 1

\* The two returns of the arctic branch: the draw of RandomRange(256) is
\* made only when the distance indexes the table.
ArcticTreeTypeAt(w, height_above_snow_line, normalised_distance, seed) ==
    IF normalised_distance < Len(w.occ)
    THEN [tree |-> IF RandomRangeValue(w.random, 256) < w.occ[normalised_distance + 1]
                   THEN SeededTree(seed, TREE_COUNT_SUB_ARCTIC, TREE_SUB_ARCTIC)
                   ELSE IF height_above_snow_line < 0
                        THEN SeededTree(seed, TREE_COUNT_TEMPERATE, TREE_TEMPERATE)
                        ELSE TREE_INVALID,
          w |-> [w EXCEPT !.random = RandomNext(@)]]
    ELSE [tree |-> IF height_above_snow_line < 0
                   THEN SeededTree(seed, TREE_COUNT_TEMPERATE, TREE_TEMPERATE)
                   ELSE TREE_INVALID,
          w |-> w]

\* The arctic branch once the cache is fresh.
ArcticTreeType(w, z, seed) ==
    ArcticTreeTypeAt(w, HeightAboveSnowLine(z), NormalisedDistance(HeightAboveSnowLine(z)), seed)

\* GetRandomTreeType(tile, seed): the tree type and the world after the call
\* (the arctic branch refreshes the cache and may draw from Random()).
GetRandomTreeType(w, tile, seed) ==
    CASE _settings_game.landscape = "LT_TEMPERATE" ->
             [tree |-> SeededTree(seed, TREE_COUNT_TEMPERATE, TREE_TEMPERATE), w |-> w]
      [] _settings_game.landscape = "LT_ARCTIC" ->
             IF ~_settings_game.trees_around_snow_line_enabled
             THEN [tree |-> SeededTree(seed, TREE_COUNT_SUB_ARCTIC, TREE_SUB_ARCTIC), w |-> w]
             ELSE ArcticTreeType(RefreshArcticTreeOccurance(w), GetTileZ(w.m, tile), seed)
      [] _settings_game.landscape = "LT_TROPIC" ->
             CASE GetTropicZone(w.m, tile) = "TROPICZONE_NORMAL" ->
                      [tree |-> SeededTree(seed, TREE_COUNT_SUB_TROPICAL, TREE_SUB_TROPICAL), w |-> w]
               [] GetTropicZone(w.m, tile) = "TROPICZONE_DESERT" ->
                      [tree |-> IF seed > 12 THEN TREE_INVALID ELSE TREE_CACTUS, w |-> w]
               [] OTHER ->
                      [tree |-> SeededTree(seed, TREE_COUNT_RAINFOREST, TREE_RAINFOREST), w |-> w]
      [] OTHER ->
             [tree |-> SeededTree(seed, TREE_COUNT_TOYLAND, TREE_TOYLAND), w |-> w]

\* GetSparseTreeRange()
GetSparseTreeRange ==
    LET max_map_height == Max(32, _settings_game.map_height_limit)
    IN  Min(8, (4 * max_map_height) \div 32)

\* MaxTreeCount(tile): the count and the world after the call (the arctic
\* branch refreshes the cache).
MaxTreeCount(w, tile) ==
    LET tile_z == GetTileZ(w.m, tile)
        x == tile_z * 4
        y == GetSparseTreeRange
        round_up_divide == (x \div y) + (IF x % y # 0 THEN 1 ELSE 0)
        max_trees_z_based ==
            Max(1, round_up_divide) + (IF _settings_game.landscape # "LT_TROPIC" THEN 0 ELSE 1)
        arctic == _settings_game.landscape = "LT_ARCTIC"
        w1 == IF arctic THEN RefreshArcticTreeOccurance(w) ELSE w
        height_above_snow_line == Max(0, tile_z - HighestTreePlacementSnowLine)
        max_trees_snow_line_based ==
            IF ~arctic THEN 4
            ELSE IF height_above_snow_line < Len(w1.occ)
                 THEN 1 + (w1.occ[height_above_snow_line + 1] * 4) \div 255
                 ELSE 0
    IN  [n |-> Min(max_trees_z_based, max_trees_snow_line_based), w |-> w1]

-----------------------------------------------------------------------------
(* The clear-land command and the nested dispatcher call.                  *)

DC_EXEC == "DC_EXEC"
HasExec(flags) == DC_EXEC \in flags

\* The tile is cleared without looking at the flags.
ClearTile_TreesIgnoringFlags(w, tile, flags) ==
    LET count == GetTreeCount(w.m, tile)
        num == IF IsInsideMM(GetTreeType(w.m, tile), TREE_RAINFOREST, TREE_CACTUS)
               THEN count * 4 ELSE count
    IN  [w |-> [w EXCEPT !.m = DoClearSquare(w.m, tile)],
         cost |-> CommandCostOf("EXPENSES_CONSTRUCTION", num * _price.PR_CLEAR_TREES)]

\* ClearTile_Trees charging every species alike.
ClearTile_TreesFlatRate(w, tile, flags) ==
    LET num == GetTreeCount(w.m, tile)
    IN  [w |-> IF HasExec(flags) THEN [w EXCEPT !.m = DoClearSquare(w.m, tile)] ELSE w,
         cost |-> CommandCostOf("EXPENSES_CONSTRUCTION", num * _price.PR_CLEAR_TREES)]

\* ClearTile_Trees(tile, flags)
ClearTile_Trees(w, tile, flags) ==
    LET count == GetTreeCount(w.m, tile)
        num == IF IsInsideMM(GetTreeType(w.m, tile), TREE_RAINFOREST, TREE_CACTUS)
               THEN count * 4 ELSE count
    IN  [w |-> IF HasExec(flags) THEN [w EXCEPT !.m = DoClearSquare(w.m, tile)] ELSE w,
         cost |-> CommandCostOf("EXPENSES_CONSTRUCTION", num * _price.PR_CLEAR_TREES)]

\* ClearTile_Clear(tile, flags) of clear_cmd.cpp: the price of the ground.
ClearTile_Clear(w, tile, flags) ==
    LET ground == GetRawClearGround(w.m, tile)
        price == CASE ground = "CLEAR_ROCKS"  -> _price.PR_CLEAR_ROCKS
                   [] ground = "CLEAR_FIELDS" -> _price.PR_CLEAR_FIELDS
                   [] ground = "CLEAR_GRASS"  -> _price.PR_CLEAR_GRASS
                   [] OTHER                   -> _price.PR_CLEAR_ROUGH
    IN  [w |-> IF HasExec(flags) THEN [w EXCEPT !.m = DoClearSquare(w.m, tile)] ELSE w,
         cost |-> CommandCostOf("EXPENSES_CONSTRUCTION", price)]

\* CmdLandscapeClear(tile, flags, ...): rejected where the world forbids it,
\* otherwise the clear_tile_proc of the tile type.
CmdLandscapeClear(w, tile, flags) ==
    IF w.m[tile].clear_denied
    THEN [w |-> w, cost |-> CommandError("STR_ERROR_CAN_T_CLEAR_THIS_AREA")]
    ELSE CASE GetTileType(w.m, tile) = "MP_TREES" -> ClearTile_Trees(w, tile, flags)
           [] GetTileType(w.m, tile) = "MP_CLEAR" -> ClearTile_Clear(w, tile, flags)
           [] OTHER -> [w |-> w, cost |-> CMD_ERROR]

\* DoCommand(tile, 0, 0, flags, CMD_LANDSCAPE_CLEAR): the handler is run
\* without DC_EXEC first and with the given flags only when that succeeded.
DoCommandClear(w, tile, flags) ==
    LET test == CmdLandscapeClear(w, tile, flags \ {DC_EXEC})
    IN  IF Failed(test.cost) \/ ~HasExec(flags) THEN test
        ELSE CmdLandscapeClear(test.w, tile, flags)

\* TerraformTile_Trees(tile, flags, z_new, tileh_new)
TerraformTile_Trees(w, tile, flags) == DoCommandClear(w, tile, flags)

-----------------------------------------------------------------------------
(* TileArea(tile, p2): the tiles of the rectangle between two corners, row *)
(* by row from the northern corner.                                        *)

RECURSIVE TileAreaRow(_, _, _)
TileAreaRow(x, ex, y) ==
    IF x > ex THEN <<>> ELSE <<TileXY(x, y)>> \o TileAreaRow(x + 1, ex, y)

RECURSIVE TileAreaRows(_, _, _, _)
TileAreaRows(sx, ex, y, ey) ==
    IF y > ey THEN <<>> ELSE TileAreaRow(sx, ex, y) \o TileAreaRows(sx, ex, y + 1, ey)

TileArea(start, end) ==
    TileAreaRows(Min(TileX(start), TileX(end)), Max(TileX(start), TileX(end)),
                 Min(TileY(start), TileY(end)), Max(TileY(start), TileY(end)))

-----------------------------------------------------------------------------
(* CmdPlantTree(tile, flags, p1, p2, text).                                *)

\* Company *c = (_game_mode != GM_EDITOR) ? Company::GetIfValid(_current_company) : nullptr
CompanyIsValidID == _current_company = "COMPANY_FIRST"
\* The game mode is not looked at.
HasCompanyInAnyMode == CompanyIsValidID

HasCompany == _game_mode # "GM_EDITOR" /\ CompanyIsValidID

\* The shift is forgotten: c->tree_limit -= 1.
ConsumeTreeLimitUnshifted(w) ==
    IF HasCompany
    THEN [w EXCEPT !.tree_limit = IF @.lo = 0 THEN U32Of((@.hi - 1) % U16, U16 - 1)
                                  ELSE U32Of(@.hi, @.lo - 1)]
    ELSE w

\* c->tree_limit -= 1 << 16, on 32 bits.
ConsumeTreeLimit(w) ==
    IF HasCompany THEN [w EXCEPT !.tree_limit = U32SubHigh(@)] ELSE w

\* The loop state: world, msg, cost, limit, whether the loop was left, and a
\* premature return value of the function.
PlantLoopInit(w) ==
    [w |-> w, msg |-> INVALID_STRING_ID, cost |-> CommandCost("EXPENSES_OTHER"),
     limit |-> IF HasCompany THEN GB32(w.tree_limit, 16, 16) ELSE INT32_MAX,
     left |-> FALSE, returned |-> FALSE, ret |-> CMD_ERROR]

\* "continue" with a message.
PlantSkip(st, msg) == [st EXCEPT !.msg = msg]

\* The end of the loop body after a "break" out of the switch:
\* if (limit < 0) break;
PlantEndOfBody(st) == [st EXCEPT !.left = st.limit < 0]

\* The test of the limit is left out.
PlantLimitNeverHit(st) == st.limit = st.limit

\* if (--limit < 1) { msg = STR_ERROR_TREE_PLANT_LIMIT_REACHED; break; }
PlantLimitPasses(st) == st.limit - 1 >= 1

PlantLimitHit(st) ==
    PlantEndOfBody([st EXCEPT !.limit = @ - 1, !.msg = "STR_ERROR_TREE_PLANT_LIMIT_REACHED"])

\* The cost of another tree is charged only when the trees are planted.
PlantOnTreesApplyCostInExec(st, tile, flags, grow_existing_tree_instead) ==
    LET m2 == IF grow_existing_tree_instead
              THEN SetTreeGrowth(st.w.m, tile, 3)
              ELSE AddTreeCount(st.w.m, tile, 1)
        w2 == IF HasExec(flags) THEN ConsumeTreeLimit([st.w EXCEPT !.m = m2]) ELSE st.w
    IN  PlantEndOfBody([st EXCEPT !.limit = @ - 1, !.w = w2,
                                  !.cost = IF HasExec(flags)
                                           THEN AddMoney(@, _price.PR_BUILD_TREES * 2)
                                           ELSE @])

\* The quota is consumed outside the "if (flags & DC_EXEC)" block.
PlantOnTreesApplyLimitAlways(st, tile, flags, grow_existing_tree_instead) ==
    LET m2 == IF grow_existing_tree_instead
              THEN SetTreeGrowth(st.w.m, tile, 3)
              ELSE AddTreeCount(st.w.m, tile, 1)
        w2 == ConsumeTreeLimit(IF HasExec(flags) THEN [st.w EXCEPT !.m = m2] ELSE st.w)
    IN  PlantEndOfBody([st EXCEPT !.limit = @ - 1, !.w = w2,
                                  !.cost = AddMoney(@, _price.PR_BUILD_TREES * 2)])

\* case MP_TREES once "--limit" passed its test: the execute block and the
\* cost of another tree (twice the price).  MarkTileDirtyByTile only
\* schedules a redraw.
PlantOnTreesApply(st, tile, flags, grow_existing_tree_instead) ==
    LET m2 == IF grow_existing_tree_instead
              THEN SetTreeGrowth(st.w.m, tile, 3)
              ELSE AddTreeCount(st.w.m, tile, 1)
        w2 == IF HasExec(flags) THEN ConsumeTreeLimit([st.w EXCEPT !.m = m2]) ELSE st.w
    IN  PlantEndOfBody([st EXCEPT !.limit = @ - 1, !.w = w2,
                                  !.cost = AddMoney(@, _price.PR_BUILD_TREES * 2)])

\* The test "tile already has the most trees it takes" of case MP_TREES; mx
\* is the result of MaxTreeCount(tile).
PlantTileIsFull(m, tile, mx) ==
    IF _settings_game.tree_placer = TP_PERFECT
    THEN GetTreeCount(m, tile) >= 4
         \/ (GetTreeType(m, tile) # TREE_CACTUS /\ GetTreeCount(m, tile) >= mx.n)
    ELSE GetTreeCount(m, tile) = 4

\* MaxTreeCount(tile) is called only when the conditions before it in the
\* "||" chain are false.
PlantAsksMaxTreeCount(m, tile) ==
    /\ _settings_game.tree_placer = TP_PERFECT
    /\ GetTreeCount(m, tile) < 4
    /\ GetTreeType(m, tile) # TREE_CACTUS

\* case MP_TREES after the test of the tile.
PlantOnTreesChecked(st, tile, flags, full, grow_existing_tree_instead) ==
    IF full /\ ~grow_existing_tree_instead
    THEN PlantSkip(st, "STR_ERROR_TREE_ALREADY_HERE")
    ELSE IF ~PlantLimitPasses(st) THEN PlantLimitHit(st)
    ELSE PlantOnTreesApply(st, tile, flags, grow_existing_tree_instead)

PlantOnTreesFull(st, tile, flags, full) ==
    PlantOnTreesChecked(st, tile, flags, full,
                        /\ _settings_game.tree_placer = TP_PERFECT
                        /\ full
                        /\ GetTreeGrowth(st.w.m, tile) < 3)

PlantOnTreesMax(st, tile, flags, mx) ==
    PlantOnTreesFull(IF PlantAsksMaxTreeCount(st.w.m, tile) THEN [st EXCEPT !.w = mx.w] ELSE st,
                     tile, flags, PlantTileIsFull(st.w.m, tile, mx))

\* case MP_TREES
PlantOnTrees(st, tile, flags) == PlantOnTreesMax(st, tile, flags, MaxTreeCount(st.w, tile))

\* if (treetype == TREE_INVALID) { ... } after GetRandomTreeType returned r:
\* a second drawn species around the snow line, a cactus elsewhere.
PlantReplaceInvalidTree(tile, r) ==
    IF r.tree # TREE_INVALID THEN r
    ELSE IF _settings_game.trees_around_snow_line_enabled
            /\ _settings_game.landscape = "LT_ARCTIC"
         THEN [tree |-> IF GetTileZ(r.w.m, tile) <= _settings_game.snow_line_height
                        THEN SeededTree(GB32(RandomValue(r.w.random), 24, 8),
                                        TREE_COUNT_TEMPERATE, TREE_TEMPERATE)
                        ELSE SeededTree(GB32(RandomValue(r.w.random), 24, 8),
                                        TREE_COUNT_SUB_ARCTIC, TREE_SUB_ARCTIC),
               w |-> [r.w EXCEPT !.random = RandomNext(@)]]
         ELSE [tree |-> TREE_CACTUS, w |-> r.w]

\* The species planted in execute mode: p1, or a random one.
PlantChooseTree(w, tile, treetype) ==
    IF treetype # TREE_INVALID THEN [tree |-> treetype, w |-> w]
    ELSE PlantReplaceInvalidTree(
             tile, GetRandomTreeType([w EXCEPT !.random = RandomNext(@)], tile,
                                     GB32(RandomValue(w.random), 24, 8)))

\* Only the cacti are kept to their zone.
PlantWrongTerrainCactusOnly(m, tile, treetype) ==
    /\ _settings_game.landscape = "LT_TROPIC"
    /\ treetype # TREE_INVALID
    /\ treetype = TREE_CACTUS /\ GetTropicZone(m, tile) # "TROPICZONE_DESERT"

\* Be a bit picky about which trees go where.
PlantWrongTerrain(m, tile, treetype) ==
    /\ _settings_game.landscape = "LT_TROPIC"
    /\ treetype # TREE_INVALID
    /\ \/ (treetype = TREE_CACTUS /\ GetTropicZone(m, tile) # "TROPICZONE_DESERT")
       \/ /\ IsInsideMM(treetype, TREE_RAINFOREST, TREE_CACTUS)
          /\ GetTropicZone(m, tile) # "TROPICZONE_RAINFOREST"
          /\ _game_mode # "GM_EDITOR"
       \/ /\ IsInsideMM(treetype, TREE_SUB_TROPICAL, TREE_TOYLAND)
          /\ GetTropicZone(m, tile) # "TROPICZONE_NORMAL"

\* SetTropicZone(tile, TROPICZONE_RAINFOREST) for rainforest trees in the
\* editor.
PlantSetRainforest(m, tile, treetype) ==
    IF _game_mode = "GM_EDITOR" /\ IsInsideMM(treetype, TREE_RAINFOREST, TREE_CACTUS)
    THEN SetTropicZone(m, tile, "TROPICZONE_RAINFOREST") ELSE m

\* The tile is planted and the quota is left as it was.
PlantChosenTreeUncounted(tile, ch) ==
    [ch.w EXCEPT !.m = PlantSetRainforest(
                           PlantTreesOnTile(ch.w.m, tile, ch.tree, 0,
                                            IF _game_mode = "GM_EDITOR" THEN 3 ELSE 0),
                           tile, ch.tree)]

\* The execute block once the species ch.tree is chosen.
PlantChosenTree(tile, ch) ==
    ConsumeTreeLimit(
        [ch.w EXCEPT !.m = PlantSetRainforest(
                               PlantTreesOnTile(ch.w.m, tile, ch.tree, 0,
                                                IF _game_mode = "GM_EDITOR" THEN 3 ELSE 0),
                               tile, ch.tree)])

\* if (flags & DC_EXEC) { ... } of case MP_CLEAR
PlantExecute(w, tile, treetype) == PlantChosenTree(tile, PlantChooseTree(w, tile, treetype))

\* A new tile of trees is charged like another tree on an existing one.
PlantOnClearApplyDouble(st, tile, flags, treetype, w1, cost1) ==
    PlantEndOfBody([st EXCEPT !.limit = @ - 1,
                              !.w = IF HasExec(flags) THEN PlantExecute(w1, tile, treetype)
                                    ELSE w1,
                              !.cost = AddMoney(cost1, _price.PR_BUILD_TREES * 2)])

\* The end of case MP_CLEAR: the execute block and the price of one tree.
PlantOnClearApply(st, tile, flags, treetype, w1, cost1) ==
    PlantEndOfBody([st EXCEPT !.limit = @ - 1,
                              !.w = IF HasExec(flags) THEN PlantExecute(w1, tile, treetype)
                                    ELSE w1,
                              !.cost = AddMoney(cost1, _price.PR_BUILD_TREES)])

\* The result of the clear command is added to the cost without a look at
\* its failure, and the tile is planted.
PlantOnClearClearedIgnoringFailure(st, tile, flags, treetype, ret) ==
    PlantOnClearApply(st, tile, flags, treetype, ret.w, AddCost(st.cost, ret.cost))

\* case CLEAR_FIELDS, CLEAR_ROCKS: the tile is cleared first; ret is the
\* result of the clear command, and a failure of it leaves the function.
PlantOnClearCleared(st, tile, flags, treetype, ret) ==
    IF Failed(ret.cost)
    THEN [st EXCEPT !.limit = @ - 1, !.w = ret.w, !.returned = TRUE, !.ret = ret.cost]
    ELSE PlantOnClearApply(st, tile, flags, treetype, ret.w, AddCost(st.cost, ret.cost))

\* case MP_CLEAR (and MP_WATER, which falls through into it).  The town
\* rating changed by ChangeTownRating is read by no tree code and is left
\* out of the state.
PlantOnClear(st, tile, flags, treetype) ==
    IF ~CanPlantTreesOnTile(st.w.m, tile, FALSE) \/ IsBridgeAbove(st.w.m, tile)
    THEN PlantSkip(st, "STR_ERROR_SITE_UNSUITABLE")
    ELSE IF PlantWrongTerrain(st.w.m, tile, treetype)
    THEN PlantSkip(st, "STR_ERROR_TREE_WRONG_TERRAIN_FOR_TREE_TYPE")
    ELSE IF ~PlantLimitPasses(st) THEN PlantLimitHit(st)
    ELSE IF /\ IsTileType(st.w.m, tile, "MP_CLEAR")
            /\ GetRawClearGround(st.w.m, tile) \in {"CLEAR_FIELDS", "CLEAR_ROCKS"}
    THEN PlantOnClearCleared(st, tile, flags, treetype, DoCommandClear(st.w, tile, flags))
    ELSE PlantOnClearApply(st, tile, flags, treetype, st.w, st.cost)

\* case MP_WATER
PlantOnWater(st, tile, flags, treetype) ==
    LET m == st.w.m
    IN  IF \/ ~CanPlantTreesOnTile(m, tile, FALSE)
           \/ ~IsCoast(m, tile)
           \/ IsSlopeWithOneCornerRaised(m, tile)
        THEN PlantSkip(st, "STR_ERROR_CAN_T_BUILD_ON_WATER")
        ELSE PlantOnClear(st, tile, flags, treetype)

\* The body of "for (TileIndex tile : ta)".
PlantLoopBody(st, tile, flags, treetype) ==
    CASE GetTileType(st.w.m, tile) = "MP_TREES" -> PlantOnTrees(st, tile, flags)
      [] GetTileType(st.w.m, tile) = "MP_WATER" -> PlantOnWater(st, tile, flags, treetype)
      [] GetTileType(st.w.m, tile) = "MP_CLEAR" -> PlantOnClear(st, tile, flags, treetype)
      [] OTHER -> PlantEndOfBody(PlantSkip(st, "STR_ERROR_SITE_UNSUITABLE"))

RECURSIVE PlantLoop(_, _, _, _, _)
PlantLoop(st, ta, i, flags, treetype) ==
    IF i > Len(ta) \/ st.left \/ st.returned THEN st
    ELSE PlantLoop(PlantLoopBody(st, ta[i], flags, treetype), ta, i + 1, flags, treetype)

\* if (cost.GetCost() == 0) return_cmd_error(msg); else return cost;
PlantResult(st) ==
    IF st.returned THEN st.ret
    ELSE IF st.cost.cost = 0 THEN CommandError(st.msg) ELSE st.cost

\* The world and the result the function leaves behind.
PlantReturn(st) == [w |-> st.w, cost |-> PlantResult(st)]

\* The species is not checked against the climate.
CmdPlantTreeAnySpecies(w, tile, flags, p1, p2) ==
    IF p2 >= MapSize THEN [w |-> w, cost |-> CMD_ERROR]
    ELSE PlantReturn(PlantLoop(PlantLoopInit(w), TileArea(tile, p2), 1, flags, GB(p1, 0, 8)))

CmdPlantTree(w, tile, flags, p1, p2) ==
    IF p2 >= MapSize THEN [w |-> w, cost |-> CMD_ERROR]
    ELSE IF /\ GB(p1, 0, 8) # TREE_INVALID
            /\ ~IsInsideBS(GB(p1, 0, 8), _tree_base_by_landscape(_settings_game.landscape),
                           _tree_count_by_landscape(_settings_game.landscape))
    THEN [w |-> w, cost |-> CMD_ERROR]
    ELSE PlantReturn(PlantLoop(PlantLoopInit(w), TileArea(tile, p2), 1, flags, GB(p1, 0, 8)))

-----------------------------------------------------------------------------
(* Map offsets (map.cpp, map_func.h).                                      *)

\* INVALID_TILE is (TileIndex)-1.
INVALID_TILE == -1

Abs(x) == IF x < 0 THEN -x ELSE x
Delta(a, b) == Abs(a - b)

\* TileAddWrap(tile, addx, addy): the tile at the offset, INVALID_TILE when
\* the offset leaves the map.
TileAddWrap(tile, addx, addy) ==
    LET x == TileX(tile) + addx
        y == TileY(tile) + addy
    IN  IF x < 0 \/ x >= MapSizeX \/ y < 0 \/ y >= MapSizeY THEN INVALID_TILE
        ELSE TileXY(x, y)

\* TileOffsByDir(dir) as <<x, y>>, for DIR_N, DIR_NE, .. DIR_NW.
TileOffsByDir(dir) ==
    << <<-1, -1>>, <<-1, 0>>, <<-1, 1>>, <<0, 1>>,
       <<1, 1>>, <<1, 0>>, <<1, -1>>, <<0, -1>> >>[dir + 1]

\* DistanceSquare(t0, t1)
DistanceSquare(t0, t1) ==
    (TileX(t0) - TileX(t1)) * (TileX(t0) - TileX(t1))
        + (TileY(t0) - TileY(t1)) * (TileY(t0) - TileY(t1))

\* TileHeight(tile): the tiles of the model are flat.
TileHeight(m, t) == m[t].z

\* ScaleByMapSize(n) = CeilDiv(n << (MapLogX() + MapLogY() - 12), 1 << 4),
\* on the smallest map (64 x 64), which the map of the model stands for.
ScaleByMapSize(n) == (n + 15) \div 16

-----------------------------------------------------------------------------
(* tree_cmd.cpp: trees that spread and grow.                               *)

\* FindTreePositionAtSameHeight(tile, height, steps): the tile found, or
\* INVALID_TILE, and the world after the draws.
RECURSIVE FindTreePositionAtSameHeight(_, _, _, _)
FindTreePositionAtSameHeight(w, tile, height, steps) ==
    IF steps = 0 THEN [tile |-> INVALID_TILE, w |-> w]
    ELSE LET r == RandomValue(w.random)
             w1 == [w EXCEPT !.random = RandomNext(@)]
             x == GB32(r, 0, 5) - 16
             y == GB32(r, 8, 5) - 16
             cur_tile == TileAddWrap(tile, x, y)
             found == /\ cur_tile # INVALID_TILE
                      /\ Abs(x) + Abs(y) <= 16
                      /\ CanPlantTreesOnTile(w1.m, cur_tile, TRUE)
                      /\ Delta(GetTileZ(w1.m, cur_tile), height) <= 2
         IN  IF found THEN [tile |-> cur_tile, w |-> w1]
             ELSE FindTreePositionAtSameHeight(w1, tile, height, steps - 1)

\* PlantTreeAtSameHeight(tile)
PlantTreeAtSameHeight(w, tile) ==
    LET pos == FindTreePositionAtSameHeight(w, tile, GetTileZ(w.m, tile), 1)
    IN  IF pos.tile = INVALID_TILE THEN pos.w
        ELSE [pos.w EXCEPT !.m = PlantTreesOnTile(@, pos.tile, GetTreeType(w.m, tile), 0, 0)]

\* TileLoopTreesDesert(tile): the sound played in the rainforest is no
\* state, the draw that decides on it is.
TileLoopTreesDesert(w, tile) ==
    CASE GetTropicZone(w.m, tile) = "TROPICZONE_DESERT" ->
             IF GetTreeGround(w.m, tile) # "TREE_GROUND_SNOW_DESERT"
             THEN [w EXCEPT !.m = SetTreeGroundDensity(@, tile, "TREE_GROUND_SNOW_DESERT", 3)]
             ELSE w
      [] GetTropicZone(w.m, tile) = "TROPICZONE_RAINFOREST" ->
             [w EXCEPT !.random = RandomNext(@)]
      [] OTHER -> w

\* TileLoopTreesAlps(tile)
TileLoopTreesAlps(w, tile) ==
    LET k == IF TileHeight(w.m, tile) < GetSnowLine - 1 THEN -1
             ELSE GetTileZ(w.m, tile) - GetSnowLine + 1
        ground == GetTreeGround(w.m, tile)
        density == Min(k, 3)
    IN  IF k < 0
        THEN CASE ground = "TREE_GROUND_SNOW_DESERT" ->
                      [w EXCEPT !.m = SetTreeGroundDensity(@, tile, "TREE_GROUND_GRASS", 3)]
               [] ground = "TREE_GROUND_ROUGH_SNOW" ->
                      [w EXCEPT !.m = SetTreeGroundDensity(@, tile, "TREE_GROUND_ROUGH", 3)]
               [] OTHER -> w
        ELSE IF ground # "TREE_GROUND_SNOW_DESERT" /\ ground # "TREE_GROUND_ROUGH_SNOW"
        THEN [w EXCEPT !.m = SetTreeGroundDensity(@, tile,
                                 IF ground = "TREE_GROUND_ROUGH" THEN "TREE_GROUND_ROUGH_SNOW"
                                 ELSE "TREE_GROUND_SNOW_DESERT", density)]
        ELSE IF GetTreeDensity(w.m, tile) # density
        THEN [w EXCEPT !.m = SetTreeGroundDensity(@, tile, ground, density)]
        ELSE IF GetTreeDensity(w.m, tile) = 3
        THEN [w EXCEPT !.random = RandomNext(@)]
        ELSE w

\* The setting is not asked: trees may spread from every tile.
CanPlantExtraTreesAnywhere(m, tile) == TRUE

\* CanPlantExtraTrees(tile)
CanPlantExtraTrees(m, tile) ==
    IF _settings_game.landscape = "LT_TROPIC" /\ GetTropicZone(m, tile) = "TROPICZONE_RAINFOREST"
    THEN _settings_game.extra_tree_placement \in {ETP_SPREAD_ALL, ETP_SPREAD_RAINFOREST}
    ELSE _settings_game.extra_tree_placement = ETP_SPREAD_ALL

\* "case 2: add a neighbouring tree" of TileLoop_Trees.
TileLoopTreesSpread(w, tile) ==
    LET m == w.m
        perfect_spread ==
            /\ _settings_game.tree_placer = TP_PERFECT
            /\ \/ /\ _settings_game.landscape # "LT_TROPIC"
                  /\ GetTileZ(m, tile) <= GetSparseTreeRange
               \/ GetTreeType(m, tile) = TREE_CACTUS
               \/ /\ _settings_game.landscape = "LT_ARCTIC"
                  /\ GetTileZ(m, tile) >= HighestTreePlacementSnowLine
                         + _settings_game.trees_around_snow_line_range \div 3
        cactus == GetTreeType(m, tile) = TREE_CACTUS
        w1 == IF cactus THEN [w EXCEPT !.random = RandomNext(@)] ELSE w
        offs == TileOffsByDir(GB32(RandomValue(w.random), 0, 3))
        w2 == [w EXCEPT !.random = RandomNext(@)]
        next == TileAddWrap(tile, offs[1], offs[2])
    IN  IF ~CanPlantExtraTrees(m, tile) THEN w
        ELSE IF perfect_spread
        THEN IF ~cactus \/ RandomRangeValue(w.random, 100) < 50
             THEN PlantTreeAtSameHeight(w1, tile)
             ELSE w1
        ELSE IF next = INVALID_TILE THEN w2
        ELSE IF ~CanPlantTreesOnTile(m, next, FALSE) THEN w2
        ELSE IF /\ IsTileType(m, next, "MP_CLEAR")
                /\ GetClearGround(m, next) = "CLEAR_GRASS"
                /\ GetClearDensity(m, next) # 3
        THEN w2
        ELSE [w2 EXCEPT !.m = PlantTreesOnTile(@, next, GetTreeType(m, tile), 0, 0)]

\* The number of trees on the tile is not looked at: a grown tile gains a
\* tree or ages.
TileLoopTreesGrownUncounted(w, tile) ==
    IF GB32(RandomValue(w.random), 0, 3) = 1
    THEN [w EXCEPT !.random = RandomNext(@),
                   !.m = SetTreeGrowth(AddTreeCount(@, tile, 1), tile, 0)]
    ELSE [w EXCEPT !.random = RandomNext(@), !.m = AddTreeGrowth(@, tile, 1)]

\* The desert is not asked about: a grown tree fares there as it does
\* anywhere under the original placer.
TileLoopTreesGrownInDesert(w, tile) ==
    CASE GB32(RandomValue(w.random), 0, 3) = 0 ->
             [w EXCEPT !.random = RandomNext(@), !.m = AddTreeGrowth(@, tile, 1)]
      [] GB32(RandomValue(w.random), 0, 3) = 1 ->
             IF GetTreeCount(w.m, tile) < 4 /\ CanPlantExtraTrees(w.m, tile)
             THEN [w EXCEPT !.random = RandomNext(@),
                            !.m = SetTreeGrowth(AddTreeCount(@, tile, 1), tile, 0)]
             ELSE TileLoopTreesSpread([w EXCEPT !.random = RandomNext(@)], tile)
      [] GB32(RandomValue(w.random), 0, 3) = 2 ->
             TileLoopTreesSpread([w EXCEPT !.random = RandomNext(@)], tile)
      [] OTHER -> [w EXCEPT !.random = RandomNext(@)]

\* "case 3: regular sized tree" of TileLoop_Trees.
TileLoopTreesGrown(w, tile) ==
    LET m == w.m
        r == GB32(RandomValue(w.random), 0, 3)
        w1 == [w EXCEPT !.random = RandomNext(@)]
        perfect == _settings_game.tree_placer = TP_PERFECT
        asks_max == perfect /\ GetTreeCount(m, tile) < 4 /\ GetTreeType(m, tile) # TREE_CACTUS
        mx == MaxTreeCount(w1, tile)
        w2 == IF asks_max THEN mx.w ELSE w1
        adds == IF perfect
                THEN /\ GetTreeCount(m, tile) < 4
                     /\ (GetTreeType(m, tile) = TREE_CACTUS \/ GetTreeCount(m, tile) < mx.n)
                ELSE GetTreeCount(m, tile) < 4 /\ CanPlantExtraTrees(m, tile)
    IN  IF /\ _settings_game.landscape = "LT_TROPIC"
           /\ GetTreeType(m, tile) # TREE_CACTUS
           /\ GetTropicZone(m, tile) = "TROPICZONE_DESERT"
        THEN [w EXCEPT !.m = AddTreeGrowth(@, tile, 1)]
        ELSE CASE r = 0 -> [w1 EXCEPT !.m = AddTreeGrowth(@, tile, 1)]
               [] r = 1 -> IF adds
                           THEN [w2 EXCEPT !.m = SetTreeGrowth(AddTreeCount(@, tile, 1), tile, 0)]
                           ELSE TileLoopTreesSpread(w2, tile)
               [] r = 2 -> TileLoopTreesSpread(w1, tile)
               [] OTHER -> w1

\* The setting is not asked at the last stage: a tree dies wherever it
\* stands.
TileLoopTreesDeadUnguarded(w, tile) ==
    IF GetTreeCount(w.m, tile) > 1
    THEN [w EXCEPT !.m = SetTreeGrowth(AddTreeCount(@, tile, -1), tile, 3)]
    ELSE [w EXCEPT !.m = MakeClear(@, tile, "CLEAR_GRASS", GetTreeDensity(w.m, tile))]

\* "case 6: final stage of tree destruction" of TileLoop_Trees.
TileLoopTreesDead(w, tile) ==
    LET m == w.m
        ground == GetTreeGround(m, tile)
        density == GetTreeDensity(m, tile)
    IN  IF ~CanPlantExtraTrees(m, tile)
        THEN [w EXCEPT !.m = SetTreeGrowth(@, tile, 0)]
        ELSE IF GetTreeCount(m, tile) > 1
        THEN [w EXCEPT !.m = SetTreeGrowth(AddTreeCount(@, tile, -1), tile, 3)]
        ELSE [w EXCEPT !.m =
                 CASE ground = "TREE_GROUND_SHORE" -> MakeShore(m, tile)
                   [] ground = "TREE_GROUND_GRASS" -> MakeClear(m, tile, "CLEAR_GRASS", density)
                   [] ground = "TREE_GROUND_ROUGH" -> MakeClear(m, tile, "CLEAR_ROUGH", 3)
                   [] ground = "TREE_GROUND_ROUGH_SNOW" ->
                          MakeSnow(MakeClear(m, tile, "CLEAR_ROUGH", 3), tile, density)
                   [] OTHER ->
                          IF _settings_game.landscape = "LT_TROPIC"
                          THEN MakeClear(m, tile, "CLEAR_DESERT", density)
                          ELSE MakeSnow(MakeClear(m, tile, "CLEAR_GRASS", 3), tile, density)]

\* "case 6" is missing: a dying tree goes on growing.
TileLoopTreesGrowForever(w, tile) ==
    CASE GetTreeGrowth(w.m, tile) = 3 -> TileLoopTreesGrown(w, tile)
      [] OTHER -> [w EXCEPT !.m = AddTreeGrowth(@, tile, 1)]

\* switch (GetTreeGrowth(tile)) of TileLoop_Trees.
TileLoopTreesGrow(w, tile) ==
    CASE GetTreeGrowth(w.m, tile) = 3 -> TileLoopTreesGrown(w, tile)
      [] GetTreeGrowth(w.m, tile) = 6 -> TileLoopTreesDead(w, tile)
      [] OTHER -> [w EXCEPT !.m = AddTreeGrowth(@, tile, 1)]

\* uint16 grow_slowing_values[4] = { 0x10000 / 5, 0x10000 / 20, 0x10000 / 120, 0 }
grow_slowing_values == <<13107, 3276, 546, 0>>

\* TileLoop_Trees(tile).  TileLoop_Water floods the neighbours of a shore
\* tile and AmbientSoundEffect plays a sound: neither touches tree state.
TileLoop_Trees(w, tile) ==
    LET w1 == IF GetTreeGround(w.m, tile) = "TREE_GROUND_SHORE" THEN w
              ELSE CASE _settings_game.landscape = "LT_TROPIC" -> TileLoopTreesDesert(w, tile)
                     [] _settings_game.landscape = "LT_ARCTIC" -> TileLoopTreesAlps(w, tile)
                     [] OTHER -> w
        cycle == (tile % 31) + (w.tick_counter \div 256)
        density == GetTreeDensity(w1.m, tile)
        w2 == IF /\ cycle % 8 = 7
                 /\ GetTreeGround(w1.m, tile) = "TREE_GROUND_GRASS"
                 /\ density < 3
              THEN [w1 EXCEPT !.m = SetTreeGroundDensity(@, tile, "TREE_GROUND_GRASS", density + 1)]
              ELSE w1
        rate == _settings_game.tree_growth_rate
        w3 == [w2 EXCEPT !.random = RandomNext(@)]
    IN  IF cycle % 16 < 15 THEN w2
        ELSE IF _settings_game.extra_tree_placement = ETP_NO_GROWTH_NO_SPREAD THEN w2
        ELSE IF rate > 0
        THEN IF rate = 4 THEN w2
             ELSE IF RandomValue(w2.random).lo >= grow_slowing_values[rate] THEN w3
             ELSE TileLoopTreesGrow(w3, tile)
        ELSE TileLoopTreesGrow(w2, tile)

\* The counter is not written back: every call starts from the same value.
DecrementTreeCounterUnstored(w, scaled_map_size) ==
    IF scaled_map_size >= 256 THEN [n |-> scaled_map_size \div 256, w |-> w]
    ELSE [n |-> IF w.trees_tick_ctr <= (w.trees_tick_ctr - scaled_map_size) % 256
                THEN 1 ELSE 0,
          w |-> w]

\* The body of DecrementTreeCounter() for a value of ScaleByMapSize(1): the
\* number of trees to try and the world after.
DecrementTreeCounterScaled(w, scaled_map_size) ==
    LET old_trees_tick_ctr == w.trees_tick_ctr
        new_trees_tick_ctr == (old_trees_tick_ctr - scaled_map_size) % 256
    IN  IF scaled_map_size >= 256 THEN [n |-> scaled_map_size \div 256, w |-> w]
        ELSE [n |-> IF old_trees_tick_ctr <= new_trees_tick_ctr THEN 1 ELSE 0,
              w |-> [w EXCEPT !.trees_tick_ctr = new_trees_tick_ctr]]

\* DecrementTreeCounter() on the map of the model.
DecrementTreeCounter(w) == DecrementTreeCounterScaled(w, ScaleByMapSize(1))

\* The tile and the seed of the new tree are drawn from InteractiveRandom().
OnTickPlaceInteractive(w, rainforest) ==
    LET r == RandomValue(w.interactive)
        w1 == [w EXCEPT !.interactive = RandomNext(@)]
        tile == RandomTileSeed(r)
        suitable == /\ rainforest => GetTropicZone(w1.m, tile) = "TROPICZONE_RAINFOREST"
                    /\ CanPlantTreesOnTile(w1.m, tile, FALSE)
        rt == GetRandomTreeType(w1, tile, GB32(r, 24, 8))
    IN  IF ~suitable THEN w1
        ELSE IF rt.tree = TREE_INVALID THEN rt.w
        ELSE [rt.w EXCEPT !.m = PlantTreesOnTile(@, tile, rt.tree, 0, 0)]

\* One round of the loops of OnTick_Trees: a tree at a random spot, in the
\* first loop at a rainforest spot only.
OnTickPlace(w, rainforest) ==
    LET r == RandomValue(w.random)
        w1 == [w EXCEPT !.random = RandomNext(@)]
        tile == RandomTileSeed(r)
        suitable == /\ rainforest => GetTropicZone(w1.m, tile) = "TROPICZONE_RAINFOREST"
                    /\ CanPlantTreesOnTile(w1.m, tile, FALSE)
        rt == GetRandomTreeType(w1, tile, GB32(r, 24, 8))
    IN  IF ~suitable THEN w1
        ELSE IF rt.tree = TREE_INVALID THEN rt.w
        ELSE [rt.w EXCEPT !.m = PlantTreesOnTile(@, tile, rt.tree, 0, 0)]

RECURSIVE OnTickPlaceTimes(_, _, _)
OnTickPlaceTimes(w, n, rainforest) ==
    IF n = 0 THEN w ELSE OnTickPlaceTimes(OnTickPlace(w, rainforest), n - 1, rainforest)

\* OnTick_Trees()
OnTick_Trees(w) ==
    LET etp == _settings_game.extra_tree_placement
        skip == ScaleByMapSize(16)
        w1 == IF _settings_game.landscape = "LT_TROPIC"
              THEN OnTickPlaceTimes(w, ScaleByMapSize(1), TRUE) ELSE w
        ctr == DecrementTreeCounter(w1)
    IN  IF etp = ETP_NO_SPREAD \/ etp = ETP_NO_GROWTH_NO_SPREAD THEN w
        ELSE IF skip < 16 /\ w.tick_counter % (16 \div skip) # 0 THEN w
        ELSE IF etp = ETP_SPREAD_RAINFOREST THEN w1
        ELSE OnTickPlaceTimes(ctr.w, ctr.n, FALSE)

\* mkcoord() of PlaceTreeGroupAroundTile for the given state of the
\* interactive stream: a coordinate in [-radius, radius).
MkCoord(state, radius) ==
    LET rand == RandomValue(state)
        dist == GB32(rand, 0, 8) + GB32(rand, 8, 8) + GB32(rand, 16, 8) + GB32(rand, 24, 8)
    IN  (dist * radius) \div 512 - radius

\* The loop "for (; count > 0; count--)" of PlaceTreeGroupAroundTile.
RECURSIVE PlaceTreeGroupLoop(_, _, _, _, _, _)
PlaceTreeGroupLoop(w, tile, treetype, radius, count, planted) ==
    IF count = 0 THEN [w |-> w, planted |-> planted]
    ELSE LET xofs == MkCoord(w.interactive, radius)
             yofs == MkCoord(RandomNext(w.interactive), radius)
             w1 == [w EXCEPT !.interactive = RandomNext(RandomNext(@))]
             tile_to_plant == TileAddWrap(tile, xofs, yofs)
             adds == /\ tile_to_plant # INVALID_TILE
                     /\ IsTileType(w1.m, tile_to_plant, "MP_TREES")
                     /\ GetTreeCount(w1.m, tile_to_plant) < 4
             plants == /\ tile_to_plant # INVALID_TILE
                       /\ ~adds
                       /\ CanPlantTreesOnTile(w1.m, tile_to_plant, treetype = TREE_CACTUS)
             w2 == IF adds
                   THEN [w1 EXCEPT !.m = SetTreeGrowth(AddTreeCount(@, tile_to_plant, 1),
                                                       tile_to_plant, 0)]
                   ELSE IF plants
                   THEN [w1 EXCEPT !.m = PlantTreesOnTile(@, tile_to_plant, treetype, 0, 3)]
                   ELSE w1
         IN  PlaceTreeGroupLoop(w2, tile, treetype, radius, count - 1,
                                IF adds \/ plants THEN planted + 1 ELSE planted)

\* The tries are counted, not the trees placed.
PlaceTreeGroupAroundTileCountsTries(w, tile, treetype, radius, count, set_zone) ==
    [PlaceTreeGroupLoop(w, tile, treetype, radius, count, 0) EXCEPT !.planted = count]

\* PlaceTreeGroupAroundTile(tile, treetype, radius, count, set_zone): the
\* number of trees placed and the world after.
PlaceTreeGroupAroundTile(w, tile, treetype, radius, count, set_zone) ==
    LET placed == PlaceTreeGroupLoop(w, tile, treetype, radius, count, 0)
        zone == {t \in Tiles : DistanceSquare(tile, t) < radius * radius}
    IN  IF set_zone /\ IsInsideMM(treetype, TREE_RAINFOREST, TREE_CACTUS)
        THEN [placed EXCEPT !.w.m = [t \in Tiles |->
                                        IF t \in zone
                                        THEN [@[t] EXCEPT !.tropic = "TROPICZONE_RAINFOREST"]
                                        ELSE @[t]]]
        ELSE placed

-----------------------------------------------------------------------------
(* The dispatcher: a submitted descriptor is run in test mode and, only    *)
(* when that succeeded, in execute mode.                                   *)

\* CMD_NO_TEST is taken off the flags of every command.
GetCommandFlagsAlwaysTestable(id) ==
    CASE id \in {"CMD_TERRAFORM_LAND", "CMD_LEVEL_LAND"} -> {"CMD_ALL_TILES", "CMD_AUTO"}
      [] OTHER -> {}

\* DEF_CMD_TRAIT(...): the flags of a command.  The traits of the other
\* commands are declared in headers that are not at hand.
GetCommandFlags(id) ==
    CASE id = "CMD_TERRAFORM_LAND" -> {"CMD_ALL_TILES", "CMD_AUTO"}
      [] id = "CMD_LEVEL_LAND" -> {"CMD_ALL_TILES", "CMD_AUTO", "CMD_NO_TEST"}
      [] OTHER -> {}

\* CmdTerraformLand and CmdLevelLand: of what they do to a tile the model
\* keeps the call of the tile's terraform_tile_proc, which clears trees;
\* other tiles are refused.
TerraformTile(w, tile, flags) ==
    IF IsTileType(w.m, tile, "MP_TREES") THEN TerraformTile_Trees(w, tile, flags)
    ELSE [w |-> w, cost |-> CMD_ERROR]

\* The command table: the handler of a command id.
Handler(w, desc, flags) ==
    CASE desc.id = "CMD_PLANT_TREE" ->
             CmdPlantTree(w, desc.tile, flags, desc.p1, desc.p2)
      [] desc.id \in {"CMD_TERRAFORM_LAND", "CMD_LEVEL_LAND"} ->
             TerraformTile(w, desc.tile, flags)
      [] OTHER -> CmdLandscapeClear(w, desc.tile, flags)

\* A whole submission as one function: the result and the world after it.
DoCommandP(w, desc) ==
    LET test == Handler(w, desc, {})
    IN  IF Failed(test.cost) THEN test ELSE Handler(test.w, desc, {DC_EXEC})

NoCommand == [id |-> "NONE", tile |-> 0, p1 |-> 0, p2 |-> 0]
NoResult == [success |-> FALSE, cost |-> 0, message |-> "NONE", expense_type |-> "NONE"]
NoPeer == [w |-> [m |-> <<>>, tree_limit |-> U32Of(0, 0), random |-> 0, interactive |-> 0,
                  prev_range |-> 255, occ |-> <<>>, tick_counter |-> 0,
                  trees_tick_ctr |-> 0],
           res |-> NoResult]

\* Tree types offered as p1 in each climate: random, the climate's own
\* types and one type of another climate.
P1Values ==
    CASE _settings_game.landscape = "LT_TEMPERATE" -> {TREE_INVALID, TREE_TEMPERATE, TREE_TOYLAND}
      [] _settings_game.landscape = "LT_ARCTIC" -> {TREE_INVALID, TREE_SUB_ARCTIC, TREE_TEMPERATE}
      [] _settings_game.landscape = "LT_TROPIC" ->
             {TREE_INVALID, TREE_RAINFOREST, TREE_CACTUS, TREE_SUB_TROPICAL, TREE_TEMPERATE}
      [] OTHER -> {TREE_INVALID, TREE_TOYLAND, TREE_TEMPERATE}

PlantDescriptors ==
    [id : {"CMD_PLANT_TREE"}, tile : Tiles, p1 : P1Values, p2 : 0 .. MapSize]
ClearDescriptors ==
    {[id |-> "CMD_LANDSCAPE_CLEAR", tile |-> t, p1 |-> 0, p2 |-> 0] :
        t \in {u \in Tiles : _m[u].type \in {"MP_TREES", "MP_CLEAR"}}}
Descriptors == PlantDescriptors \cup ClearDescriptors

\* The world of a handler run becomes the program's state.
SetWorld(w) ==
    /\ _m' = w.m
    /\ tree_limit' = w.tree_limit
    /\ _random' = w.random
    /\ _interactive_random' = w.interactive
    /\ _previous_trees_around_snow_line_range' = w.prev_range
    /\ _arctic_tree_occurance' = w.occ
    /\ _tick_counter' = w.tick_counter
    /\ _trees_tick_ctr' = w.trees_tick_ctr

\* What no function of tree_cmd.cpp writes.
Environment == <<_settings_game, _game_mode, _current_company, _price,
                 _sounds, grf_files, played, load>>

\* A descriptor is submitted and the dispatcher enters Testing.
Submit(desc) ==
    /\ pc = "Idle"
    /\ pc' = "Testing"
    /\ cmd' = desc
    /\ res_test' = NoResult
    /\ res_exec' = NoResult
    /\ ncmds' = ncmds + 1
    /\ ntests' = 0
    /\ UNCHANGED <<Environment, _m, tree_limit, _random, _interactive_random,
                   _previous_trees_around_snow_line_range, _arctic_tree_occurance,
                   _tick_counter, _trees_tick_ctr, peer>>

\* The dispatcher goes on to Executing whatever the test run returned.
RunTestThenAlwaysExecute ==
    /\ pc = "Testing"
    /\ LET r == Handler(World, cmd, {})
       IN  /\ SetWorld(r.w)
           /\ res_test' = r.cost
           /\ pc' = "Executing"
    /\ ntests' = ntests + 1
    /\ UNCHANGED <<Environment, cmd, res_exec, ncmds, peer>>

\* Testing: the handler runs without DC_EXEC.
RunTest ==
    /\ pc = "Testing"
    /\ LET r == Handler(World, cmd, {})
       IN  /\ SetWorld(r.w)
           /\ res_test' = r.cost
           /\ pc' = IF Failed(r.cost) THEN "Rejected" ELSE "Executing"
    /\ ntests' = ntests + 1
    /\ UNCHANGED <<Environment, cmd, res_exec, ncmds, peer>>

\* A descriptor that passed its test run is tested again before it is
\* executed, unless its command is flagged CMD_NO_TEST.
RunTestAgain ==
    /\ pc = "Executing"
    /\ "CMD_NO_TEST" \notin GetCommandFlags(cmd.id)
    /\ ntests < MaxTests
    /\ LET r == Handler(World, cmd, {})
       IN  /\ SetWorld(r.w)
           /\ res_test' = r.cost
           /\ pc' = IF Failed(r.cost) THEN "Rejected" ELSE "Executing"
    /\ ntests' = ntests + 1
    /\ UNCHANGED <<Environment, cmd, res_exec, ncmds, peer>>

\* Executing: the handler runs with DC_EXEC.
RunExec ==
    /\ pc = "Executing"
    /\ LET r == Handler(World, cmd, {DC_EXEC})
       IN  /\ SetWorld(r.w)
           /\ res_exec' = r.cost
           /\ pc' = "Done"
    /\ UNCHANGED <<Environment, cmd, res_test, ncmds, ntests, peer>>

\* The result is handed to the caller; the descriptor is discarded.
Return ==
    /\ pc \in {"Done", "Rejected"}
    /\ pc' = "Idle"
    /\ cmd' = NoCommand
    /\ res_test' = NoResult
    /\ res_exec' = NoResult
    /\ ntests' = 0
    /\ UNCHANGED <<Environment, _m, tree_limit, _random, _interactive_random,
                   _previous_trees_around_snow_line_range, _arctic_tree_occurance,
                   _tick_counter, _trees_tick_ctr, ncmds, peer>>

-----------------------------------------------------------------------------
(* newgrf_sound.cpp: the pool of sounds, the ids of the sounds of a GRF     *)
(* file and the reading of a sound from its RIFF container.                 *)

\* Number of sounds of the original game (sound_type.h).
ORIGINAL_SAMPLE_COUNT == 73
\* SoundID is a uint16; INVALID_SOUND is 0xFFFF, as is CALLBACK_FAILED.
INVALID_SOUND == 65535
CALLBACK_FAILED == 65535

\* A null pointer; a pointer to the k-th element of a vector is k.
NullPointer == 0

\* SIZE_MAX, the offset of an entry that has no data.
SIZE_MAX == -1

\* SoundEntry(): every field zero, no file.
SoundEntry ==
    [file |-> NullPointer, file_offset |-> 0, file_size |-> U32Of(0, 0), rate |-> 0,
     bits_per_sample |-> 0, channels |-> 0, grf_container_ver |-> 0]

\* AllocateSound(num): the pool with num fresh slots at its end and the
\* index of the first of them.
AllocateSound(sounds, num) ==
    [sounds |-> sounds \o [i \in 1 .. num |-> SoundEntry], pos |-> Len(sounds)]

\* InitializeSoundPool(): the pool is emptied and SndCopyToPool fills it with
\* the sounds of the original game.
InitializeSoundPool == AllocateSound(<<>>, ORIGINAL_SAMPLE_COUNT).sounds

\* GetSound(index)
GetSound(sounds, index) ==
    IF index >= Len(sounds) THEN NullPointer ELSE index + 1

\* GetNumSounds()
GetNumSounds(sounds) == Len(sounds)

\* GetNewGRFSoundID taking every id of a GRF file for one of its sounds.
GetNewGRFSoundIDUnchecked(files, file, sound_id) ==
    IF sound_id < ORIGINAL_SAMPLE_COUNT \/ file = NullPointer THEN sound_id
    ELSE (files[file].sound_offset + (sound_id - ORIGINAL_SAMPLE_COUNT)) % U16

\* GetNewGRFSoundID(file, sound_id): file points into files.
GetNewGRFSoundID(files, file, sound_id) ==
    IF sound_id < ORIGINAL_SAMPLE_COUNT THEN sound_id
    ELSE IF file = NullPointer \/ sound_id - ORIGINAL_SAMPLE_COUNT >= files[file].num_sounds
         THEN INVALID_SOUND
         ELSE (files[file].sound_offset + (sound_id - ORIGINAL_SAMPLE_COUNT)) % U16

\* No request for a sound effect has been made.
NoSound == [fn |-> "NONE", ret |-> TRUE, fx |-> INVALID_SOUND, asserted |-> TRUE]

\* PlayVehicleSound(v, event): enabled stands for the two client settings,
\* file for v->GetGRF(), uses_callback for the bit of the callback mask,
\* callback for what the callback of the vehicle returns.  ret is the value
\* returned, fx the sound handed to SndPlayVehicleFx, asserted whether the
\* assertion before it held.
PlayVehicleSound(sounds, files, enabled, file, uses_callback, callback) ==
    IF ~enabled THEN [NoSound EXCEPT !.fn = "PlayVehicleSound"]
    ELSE IF file = NullPointer \/ ~uses_callback \/ callback = CALLBACK_FAILED
         THEN [NoSound EXCEPT !.fn = "PlayVehicleSound", !.ret = FALSE]
         ELSE LET id == GetNewGRFSoundID(files, file, callback)
              IN  IF id = INVALID_SOUND THEN [NoSound EXCEPT !.fn = "PlayVehicleSound"]
                  ELSE [fn |-> "PlayVehicleSound", ret |-> TRUE, fx |-> id,
                        asserted |-> id < GetNumSounds(sounds)]

\* PlayTileSound(file, sound_id, tile)
PlayTileSound(sounds, files, file, sound_id) ==
    LET id == GetNewGRFSoundID(files, file, sound_id)
    IN  IF id = INVALID_SOUND THEN [NoSound EXCEPT !.fn = "PlayTileSound"]
        ELSE [fn |-> "PlayTileSound", ret |-> TRUE, fx |-> id,
              asserted |-> id < GetNumSounds(sounds)]

\* LoadNewGRFSound is not running.
NoLoad ==
    [pc |-> "Idle", sound |-> SoundEntry, declared |-> U32Of(0, 0),
     total_size |-> U32Of(0, 0), tag |-> "NONE", size |-> U32Of(0, 0), n |-> 0, ret |-> FALSE]

\* LoadNewGRFSound has returned ret and left the entry as given.
LoadReturned(l, sound, ret) == [l EXCEPT !.pc = "Returned", !.sound = sound, !.ret = ret]

\* LoadNewGRFSound(sound) up to its loop.  sprite is what the file holds at
\* the offset of the entry: the length num, the two bytes after it, the
\* length of the name and whether a zero ends it, whether the words RIFF
\* and WAVE stand where they should, and the size the RIFF header declares.
LoadNewGRFSoundHeader(sound, sprite) ==
    LET header_size == IF sound.grf_container_ver >= 2 THEN 12 ELSE 11
        needed == U32Add(sprite.total_size, ToU32(sprite.name_len + header_size))
    IN  IF \/ sound.file_offset = SIZE_MAX \/ sound.file = NullPointer
           \/ ~sprite.ff1 \/ ~sprite.ff2 \/ ~sprite.terminated \/ ~sprite.riff
           \/ U32Less(ToU32(sprite.num), needed)
           \/ ~sprite.wave
        THEN LoadReturned(NoLoad, sound, FALSE)
        ELSE [NoLoad EXCEPT !.pc = "Loop", !.sound = sound,
                            !.declared = sprite.total_size,
                            !.total_size = sprite.total_size]

\* One round of the loop that believes every chunk its size.
LoadNewGRFSoundChunkUnguarded(l, chunk) ==
    LET total_size == U32Sub(l.total_size, ToU32(8))
        read == [l EXCEPT !.tag = chunk.tag, !.size = chunk.size, !.n = @ + 1,
                          !.total_size = total_size]
        skip == [read EXCEPT !.total_size = U32Sub(total_size, chunk.size)]
    IN  IF chunk.tag = "fmt "
        THEN IF U32Less(chunk.size, ToU32(16)) \/ chunk.format # 1
             THEN LoadReturned(skip, l.sound, FALSE)
             ELSE [skip EXCEPT !.sound.channels = chunk.channels,
                               !.sound.rate = chunk.rate,
                               !.sound.bits_per_sample = chunk.bits_per_sample]
        ELSE IF chunk.tag = "data"
        THEN LoadReturned(skip, [l.sound EXCEPT !.file_size = chunk.size,
                                                !.file_offset = @ + 1], TRUE)
        ELSE skip

\* One round of the loop of LoadNewGRFSound: the header of a chunk is read,
\* then the chunk according to its tag.  chunk is what the file holds at
\* the position reached: tag and size, and for a 'fmt ' chunk its fields.
LoadNewGRFSoundChunk(l, chunk) ==
    LET total_size == U32Sub(l.total_size, ToU32(8))
        read == [l EXCEPT !.tag = chunk.tag, !.size = chunk.size, !.n = @ + 1,
                          !.total_size = total_size]
        skip == [read EXCEPT !.total_size = U32Sub(total_size, chunk.size)]
    IN  IF U32Less(total_size, chunk.size) THEN LoadReturned(read, l.sound, FALSE)
        ELSE IF chunk.tag = "fmt "
        THEN IF U32Less(chunk.size, ToU32(16)) \/ chunk.format # 1
             THEN LoadReturned(skip, l.sound, FALSE)
             ELSE [skip EXCEPT !.sound.channels = chunk.channels,
                               !.sound.rate = chunk.rate,
                               !.sound.bits_per_sample = chunk.bits_per_sample]
        ELSE IF chunk.tag = "data"
        THEN LoadReturned(skip, [l.sound EXCEPT !.file_size = chunk.size,
                                                !.file_offset = @ + 1], TRUE)
        ELSE skip

\* The loop of LoadNewGRFSound is left with less than 8 bytes remaining:
\* everything that was read is cleared.
LoadNewGRFSoundEnd(l) == LoadReturned(l, SoundEntry, FALSE)

\* The sound module as the tree commands leave it.
SoundsAtRest ==
    /\ _sounds = <<>>
    /\ grf_files = <<>>
    /\ played = NoSound
    /\ load = NoLoad

-----------------------------------------------------------------------------
(* Initial states: the settings, the company, the prices and the map.      *)

\* The height limit of the map.
MapHeightLimit == 32

\* Lower 16 bits of tree_limit (the fraction refilled each tick).
TreeLimitFraction == 32768

Prices == [PR_BUILD_TREES |-> 20, PR_CLEAR_TREES |-> 15, PR_CLEAR_GRASS |-> 7,
           PR_CLEAR_ROUGH |-> 40, PR_CLEAR_ROCKS |-> 240, PR_CLEAR_FIELDS |-> 500]

Settings(landscape, placer, snow_enabled) ==
    [landscape |-> landscape, tree_placer |-> placer,
     trees_around_snow_line_enabled |-> snow_enabled,
     trees_around_snow_line_range |-> SnowLineRange,
     snow_line_height |-> SnowLineHeight,
     map_height_limit |-> MapHeightLimit,
     extra_tree_placement |-> ETP_SPREAD_ALL,
     tree_growth_rate |-> 0]

\* A clear grass tile of full density, below the snow line.
GrassTile ==
    [type |-> "MP_CLEAR", ground |-> "CLEAR_GRASS", snow |-> FALSE, density |-> 3,
     treetype |-> 0, m5 |-> 0, tropic |-> "TROPICZONE_NORMAL", z |-> 1,
     bridge |-> FALSE, coast |-> FALSE, corner |-> FALSE, clear_denied |-> FALSE]

ClearTile(ground, density) == [GrassTile EXCEPT !.ground = ground, !.density = density]
SnowTile(ground, density, z) ==
    [GrassTile EXCEPT !.ground = ground, !.density = density, !.snow = TRUE, !.z = z]
TreeTile(treetype, count, growth, z) ==
    [GrassTile EXCEPT !.type = "MP_TREES", !.ground = "TREE_GROUND_GRASS",
                      !.treetype = treetype, !.m5 = (count - 1) * 64 + growth, !.z = z]
WaterTile(coast, corner) ==
    [GrassTile EXCEPT !.type = "MP_WATER", !.density = 0, !.z = 0,
                      !.coast = coast, !.corner = corner]
HouseTile == [GrassTile EXCEPT !.type = "MP_HOUSE", !.density = 0]
InZone(tile, zone) == [tile EXCEPT !.tropic = zone]

\* The kinds of tile a map of the given climate starts with.
CommonKinds(base) ==
    { GrassTile, ClearTile("CLEAR_ROUGH", 2), ClearTile("CLEAR_ROCKS", 3),
      [GrassTile EXCEPT !.bridge = TRUE],
      HouseTile, WaterTile(TRUE, FALSE), WaterTile(FALSE, FALSE),
      TreeTile(base, 1, 0, 1), TreeTile(base, 1, 3, 3),
      TreeTile(base, 4, 1, 1), TreeTile(base, 4, 3, 1) }

ArcticKinds ==
    { SnowTile("CLEAR_GRASS", 2, 3), SnowTile("CLEAR_ROUGH", 3, 3),
      SnowTile("CLEAR_FIELDS", 1, 3),
      [SnowTile("CLEAR_FIELDS", 1, 3) EXCEPT !.clear_denied = TRUE],
      SnowTile("CLEAR_GRASS", 3, 5) }

TropicKinds ==
    { InZone(GrassTile, "TROPICZONE_DESERT"), InZone(GrassTile, "TROPICZONE_RAINFOREST"),
      InZone(ClearTile("CLEAR_DESERT", 3), "TROPICZONE_DESERT"),
      InZone(TreeTile(TREE_CACTUS, 1, 2, 1), "TROPICZONE_DESERT"),
      InZone(TreeTile(TREE_RAINFOREST, 2, 3, 3), "TROPICZONE_RAINFOREST") }

TileKinds(landscape) ==
    CASE landscape = "LT_ARCTIC" -> CommonKinds(TREE_SUB_ARCTIC) \cup ArcticKinds
      [] landscape = "LT_TROPIC" -> CommonKinds(TREE_SUB_TROPICAL) \cup TropicKinds
      [] OTHER -> CommonKinds(_tree_base_by_landscape(landscape))

\* A map laid out from two kinds of tile, alternating along the rows.
LayoutOf(a, b) == [t \in Tiles |-> IF TileX(t) % 2 = 0 THEN a ELSE b]
Layouts(landscape) ==
    {LayoutOf(a, b) : a \in TileKinds(landscape), b \in TileKinds(landscape)}

\* The static cache of tree_cmd.cpp before its first use.
FreshCache ==
    /\ _previous_trees_around_snow_line_range = 255
    /\ _arctic_tree_occurance = <<>>

\* The company's quota: upper 16 bits of tree_limit.
TreeLimitOf(quota) == U32Of(quota, TreeLimitFraction)

InitWith(settings, modes, layouts(_), seeds) ==
    /\ _settings_game \in settings
    /\ \E md \in modes : /\ _game_mode = md[1]
                         /\ _current_company = md[2]
                         /\ tree_limit = TreeLimitOf(md[3])
    /\ _price = Prices
    /\ _m \in layouts(_settings_game.landscape)
    /\ _random \in seeds
    /\ _interactive_random = 0
    /\ FreshCache
    /\ _tick_counter = 0
    /\ _trees_tick_ctr = 0
    /\ pc = "Idle"
    /\ cmd = NoCommand
    /\ res_test = NoResult
    /\ res_exec = NoResult
    /\ ncmds = 0
    /\ ntests = 0
    /\ peer = NoPeer
    /\ SoundsAtRest

AllSettings ==
    {Settings(l, p, e) : l \in {"LT_TEMPERATE", "LT_ARCTIC", "LT_TROPIC", "LT_TOYLAND"},
                         p \in {TP_ORIGINAL, TP_PERFECT}, e \in {TRUE}}

\* Who issues the command and the quota left: a company in the game with
\* a small or a larger quota, a script without company, the scenario editor.
AllModes == {<<"GM_NORMAL", "COMPANY_FIRST", 2>>, <<"GM_NORMAL", "COMPANY_FIRST", 5>>,
             <<"GM_NORMAL", "OWNER_DEITY", 5>>, <<"GM_EDITOR", "COMPANY_FIRST", 5>>}

\* One submission from any of the initial worlds.
Init == InitWith(AllSettings, AllModes, Layouts, {0})

Next ==
    \/ \E desc \in Descriptors : Submit(desc)
    \/ RunTest
    \/ RunExec

Spec == Init /\ [][Next]_vars

-----------------------------------------------------------------------------
(* A company with a quota of 5 plants single tiles, one command after the  *)
(* other.                                                                  *)

\* A tile a single planting can succeed on: plantable clear land or coast,
\* or trees with room for another one.
FeasibleTile(m, t) ==
    \/ CanPlantTreesOnTile(m, t, FALSE)
    \/ IsTileType(m, t, "MP_TREES") /\ GetTreeCount(m, t) < 4

SingleTilePlantings ==
    {desc \in PlantDescriptors :
        /\ desc.tile = desc.p2
        /\ desc.p1 \in {TREE_INVALID, _tree_base_by_landscape(_settings_game.landscape)}
        /\ FeasibleTile(_m, desc.tile)}

QuotaLayouts(landscape) ==
    {LayoutOf(a, b) : a, b \in {GrassTile, ClearTile("CLEAR_ROUGH", 2),
                                TreeTile(_tree_base_by_landscape(landscape), 1, 0, 1)}}

InitQuota ==
    InitWith({Settings("LT_TEMPERATE", TP_ORIGINAL, TRUE)},
             {<<"GM_NORMAL", "COMPANY_FIRST", 5>>}, QuotaLayouts, {0})

NextQuota ==
    \/ \E desc \in SingleTilePlantings : ncmds < MaxCmds /\ Submit(desc)
    \/ RunTest
    \/ RunExec
    \/ Return

SpecQuota == InitQuota /\ [][NextQuota]_vars

-----------------------------------------------------------------------------
(* Two runs of the engine, side by side: each operation is applied to the  *)
(* program's state and to the peer's world.  The peer starts with the same *)
(* tiles, quota and synchronized stream; its interactive stream and its    *)
(* static cache are its own.                                               *)

\* The operations applied, recorded in cmd.
TileLoopOp(t) == [id |-> "TILE_LOOP", tile |-> t, p1 |-> 0, p2 |-> 0]
OnTickOp == [id |-> "ON_TICK", tile |-> 0, p1 |-> 0, p2 |-> 0]
PlaceTreeGroupOp(t, treetype, radius) ==
    [id |-> "PLACE_TREE_GROUP", tile |-> t, p1 |-> treetype, p2 |-> radius]

\* Both runs take a step: a and b are the outcomes on either side.
PairStep(op, a, b) ==
    /\ ncmds < MaxSteps
    /\ ncmds' = ncmds + 1
    /\ cmd' = op
    /\ SetWorld(a.w)
    /\ res_exec' = a.cost
    /\ peer' = [w |-> b.w, res |-> b.cost]
    /\ UNCHANGED <<Environment, pc, res_test, ntests>>

PairPlantTree(desc) ==
    PairStep(desc, DoCommandP(World, desc), DoCommandP(peer.w, desc))

\* The tile loop visits a tile of trees.
PairTileLoop(t) ==
    /\ IsTileType(_m, t, "MP_TREES") /\ IsTileType(peer.w.m, t, "MP_TREES")
    /\ PairStep(TileLoopOp(t),
                [w |-> TileLoop_Trees(World, t), cost |-> NoResult],
                [w |-> TileLoop_Trees(peer.w, t), cost |-> NoResult])

PairOnTick ==
    PairStep(OnTickOp,
             [w |-> OnTick_Trees(World), cost |-> NoResult],
             [w |-> OnTick_Trees(peer.w), cost |-> NoResult])

\* The scenario editor places a group of trees of the climate.
PairPlaceTreeGroup(t, treetype, radius) ==
    /\ _game_mode = "GM_EDITOR"
    /\ LET a == PlaceTreeGroupAroundTile(World, t, treetype, radius, GroupCount, TRUE)
           b == PlaceTreeGroupAroundTile(peer.w, t, treetype, radius, GroupCount, TRUE)
       IN  PairStep(PlaceTreeGroupOp(t, treetype, radius),
                    [w |-> a.w, cost |-> a.planted], [w |-> b.w, cost |-> b.planted])

\* The plantings applied: from either tile of the first row, of a random or
\* a given species, on the tile alone or on the area up to the last tile.
PairPlantings ==
    {desc \in PlantDescriptors :
        /\ desc.tile \in {0, 1}
        /\ desc.p1 \in {TREE_INVALID, _tree_base_by_landscape(_settings_game.landscape)}
        /\ desc.p2 \in {desc.tile, MapSize - 1}}

PairSettings ==
    {Settings("LT_TEMPERATE", TP_ORIGINAL, TRUE), Settings("LT_ARCTIC", TP_ORIGINAL, TRUE),
     Settings("LT_ARCTIC", TP_PERFECT, TRUE), Settings("LT_TROPIC", TP_ORIGINAL, TRUE)}

PairLayouts(landscape) ==
    {LayoutOf(a, b) : a, b \in
        CASE landscape = "LT_ARCTIC" ->
                 {GrassTile, SnowTile("CLEAR_GRASS", 2, 3), TreeTile(TREE_SUB_ARCTIC, 1, 3, 3)}
          [] landscape = "LT_TROPIC" ->
                 {InZone(GrassTile, "TROPICZONE_RAINFOREST"),
                  InZone(ClearTile("CLEAR_DESERT", 3), "TROPICZONE_DESERT"),
                  InZone(TreeTile(TREE_RAINFOREST, 2, 3, 1), "TROPICZONE_RAINFOREST")}
          [] OTHER ->
                 {GrassTile, WaterTile(TRUE, FALSE),
                  TreeTile(_tree_base_by_landscape(landscape), 4, 3, 1)}}

\* A tick at which tile 0 grows and trees are placed.
TickCounters == {15 * 256}

\* The peer's own state: the position of its interactive stream, and a
\* cache that is fresh or was filled under another range setting.
PeerWorlds ==
    {[World EXCEPT !.interactive = 3],
     [World EXCEPT !.interactive = 4, !.prev_range = 1, !.occ = ArcticOccuranceTables[1]]}

InitPair ==
    /\ _settings_game \in PairSettings
    /\ \E md \in {<<"GM_NORMAL", "COMPANY_FIRST">>, <<"GM_EDITOR", "COMPANY_FIRST">>} :
           _game_mode = md[1] /\ _current_company = md[2]
    /\ tree_limit = TreeLimitOf(5)
    /\ _price = Prices
    /\ _m \in PairLayouts(_settings_game.landscape)
    /\ _random \in {0, 2}
    /\ _interactive_random = 0
    /\ FreshCache
    /\ _tick_counter \in TickCounters
    /\ _trees_tick_ctr = 0
    /\ pc = "Idle"
    /\ cmd = NoCommand
    /\ res_test = NoResult
    /\ res_exec = NoResult
    /\ ncmds = 0
    /\ ntests = 0
    /\ \E w \in PeerWorlds : peer = [w |-> w, res |-> NoResult]
    /\ SoundsAtRest

NextPair ==
    \/ \E desc \in PairPlantings : PairPlantTree(desc)
    \/ \E t \in Tiles : PairTileLoop(t)
    \/ PairOnTick
    \/ \E t \in {0, MapSize - 1}, radius \in 1 .. 2 :
           PairPlaceTreeGroup(t, _tree_base_by_landscape(_settings_game.landscape), radius)

SpecPair == InitPair /\ [][NextPair]_vars

-----------------------------------------------------------------------------
(* The operations of the tree module on maps with old trees: tiles of      *)
(* trees that are full, dying or dead.                                     *)

\* Grass and trees of the climate: young ones, four dying ones, a dead one.
GrowthKinds(landscape) ==
    {InZone(k, IF landscape = "LT_TROPIC" THEN "TROPICZONE_RAINFOREST" ELSE "TROPICZONE_NORMAL") :
        k \in {GrassTile,
               TreeTile(_tree_base_by_landscape(landscape), 3, 2, 1),
               TreeTile(_tree_base_by_landscape(landscape), 4, 5, 1),
               TreeTile(_tree_base_by_landscape(landscape), 1, 6, 1)}}

GrowthLayouts(landscape) ==
    {LayoutOf(a, b) : a \in GrowthKinds(landscape), b \in GrowthKinds(landscape)}

InitGrowth ==
    /\ _settings_game \in {Settings("LT_TEMPERATE", TP_ORIGINAL, TRUE),
                           Settings("LT_ARCTIC", TP_PERFECT, TRUE),
                           Settings("LT_TROPIC", TP_ORIGINAL, TRUE)}
    /\ \E md \in {<<"GM_NORMAL", "COMPANY_FIRST">>, <<"GM_EDITOR", "COMPANY_FIRST">>} :
           _game_mode = md[1] /\ _current_company = md[2]
    /\ tree_limit = TreeLimitOf(5)
    /\ _price = Prices
    /\ _m \in GrowthLayouts(_settings_game.landscape)
    /\ _random \in {0, 2}
    /\ _interactive_random = 0
    /\ FreshCache
    /\ _tick_counter \in TickCounters
    /\ _trees_tick_ctr = 0
    /\ pc = "Idle"
    /\ cmd = NoCommand
    /\ res_test = NoResult
    /\ res_exec = NoResult
    /\ ncmds = 0
    /\ ntests = 0
    /\ peer = [w |-> [World EXCEPT !.interactive = 3], res |-> NoResult]
    /\ SoundsAtRest

SpecGrowth == InitGrowth /\ [][NextPair]_vars

-----------------------------------------------------------------------------
(* The terraforming commands under the dispatcher: CMD_TERRAFORM_LAND may  *)
(* be tested again before it is executed, CMD_LEVEL_LAND may not.          *)

TerraformDescriptors ==
    {[id |-> i, tile |-> t, p1 |-> 0, p2 |-> 0] :
        i \in {"CMD_TERRAFORM_LAND", "CMD_LEVEL_LAND"}, t \in Tiles}

TraitLayouts(landscape) ==
    {LayoutOf(a, b) : a, b \in {GrassTile,
                                TreeTile(_tree_base_by_landscape(landscape), 1, 0, 1),
                                TreeTile(_tree_base_by_landscape(landscape), 4, 3, 1)}}

InitTraits ==
    InitWith({Settings("LT_TEMPERATE", TP_ORIGINAL, TRUE)},
             {<<"GM_NORMAL", "COMPANY_FIRST", 5>>}, TraitLayouts, {0})

NextTraits ==
    \/ \E desc \in TerraformDescriptors : ncmds < MaxCmds /\ Submit(desc)
    \/ RunTest
    \/ RunTestAgain
    \/ RunExec
    \/ Return

SpecTraits == InitTraits /\ [][NextTraits]_vars

-----------------------------------------------------------------------------
(* The cost accumulator on its own: results are composed one after the     *)
(* other into an accumulated cost, as "cost.AddCost(ret)" does in the loop *)
(* of CmdPlantTree.  res_test holds the accumulated cost and res_exec the  *)
(* result composed last.                                                   *)

\* Successful results of the two expense types with the costs met in the
\* tree code, and failures with three reasons.
CostValues ==
    {CommandCostOf(e, c) : e \in {"EXPENSES_OTHER", "EXPENSES_CONSTRUCTION"},
                           c \in {0, Prices.PR_BUILD_TREES, 2 * Prices.PR_BUILD_TREES,
                                  Prices.PR_CLEAR_ROCKS}}
    \cup {CommandError(msg) : msg \in {"STR_ERROR_CAN_T_CLEAR_THIS_AREA",
                                      "STR_ERROR_SITE_UNSUITABLE",
                                      "STR_ERROR_TREE_PLANT_LIMIT_REACHED"}}

InitCost ==
    /\ _settings_game = Settings("LT_TEMPERATE", TP_ORIGINAL, TRUE)
    /\ _game_mode = "GM_NORMAL" /\ _current_company = "COMPANY_FIRST"
    /\ tree_limit = TreeLimitOf(5)
    /\ _price = Prices
    /\ _m = LayoutOf(GrassTile, GrassTile)
    /\ _random = 0
    /\ _interactive_random = 0
    /\ FreshCache
    /\ _tick_counter = 0
    /\ _trees_tick_ctr = 0
    /\ pc = "Composing"
    /\ cmd = NoCommand
    /\ res_test \in CostValues
    /\ res_exec = NoResult
    /\ ncmds = 0
    /\ ntests = 0
    /\ peer = NoPeer
    /\ SoundsAtRest

\* cost.AddCost(ret)
ComposeCost(ret) ==
    /\ pc = "Composing" /\ ncmds < MaxAdds
    /\ res_test' = AddCost(res_test, ret)
    /\ res_exec' = ret
    /\ ncmds' = ncmds + 1
    /\ UNCHANGED <<Environment, _m, tree_limit, _random, _interactive_random,
                   _previous_trees_around_snow_line_range, _arctic_tree_occurance,
                   _tick_counter, _trees_tick_ctr, pc, cmd, ntests, peer>>

NextCost == \E ret \in CostValues : ComposeCost(ret)

SpecCost == InitCost /\ [][NextCost]_vars

-----------------------------------------------------------------------------
(* One submission at the edges of the quota: a company whose quota is used *)
(* up, nearly used up or full, a script without company and the scenario   *)
(* editor, under the usual prices and under a build-tree price of zero, in *)
(* the arctic and in the tropic climate.                                   *)

\* Quotas left to the company.
LimitQuotas == {0, 1, 2, 3, U16 - 1}

\* The company with each quota; a script and the editor beside a company
\* whose quota would not allow a single tree.
LimitModes ==
    {<<"GM_NORMAL", "COMPANY_FIRST", q>> : q \in LimitQuotas}
        \cup {<<"GM_NORMAL", "OWNER_DEITY", 1>>, <<"GM_EDITOR", "COMPANY_FIRST", 1>>,
              <<"GM_EDITOR", "OWNER_NONE", 0>>}

LimitPrices == {Prices, [Prices EXCEPT !.PR_BUILD_TREES = 0]}

LimitKinds(landscape) ==
    IF landscape = "LT_TROPIC"
    THEN { GrassTile, InZone(GrassTile, "TROPICZONE_DESERT"),
           InZone(GrassTile, "TROPICZONE_RAINFOREST"),
           InZone(ClearTile("CLEAR_DESERT", 3), "TROPICZONE_DESERT"),
           InZone(TreeTile(TREE_CACTUS, 1, 2, 1), "TROPICZONE_DESERT"),
           InZone(TreeTile(TREE_RAINFOREST, 2, 3, 1), "TROPICZONE_RAINFOREST") }
    ELSE { GrassTile, HouseTile, SnowTile("CLEAR_FIELDS", 1, 3),
           [SnowTile("CLEAR_FIELDS", 1, 3) EXCEPT !.clear_denied = TRUE],
           TreeTile(_tree_base_by_landscape(landscape), 1, 0, 1),
           TreeTile(_tree_base_by_landscape(landscape), 4, 3, 1) }

LimitLayouts(landscape) ==
    {LayoutOf(a, b) : a \in LimitKinds(landscape), b \in LimitKinds(landscape)}

\* The clear command is refused to a company only: without a company, and in
\* the editor, clear land is cleared wherever it lies.
InitLimit ==
    /\ _settings_game \in {Settings("LT_ARCTIC", TP_ORIGINAL, TRUE),
                           Settings("LT_TROPIC", TP_ORIGINAL, TRUE)}
    /\ \E md \in LimitModes : /\ _game_mode = md[1]
                              /\ _current_company = md[2]
                              /\ tree_limit = TreeLimitOf(md[3])
    /\ _price \in LimitPrices
    /\ _m \in LimitLayouts(_settings_game.landscape)
    /\ (\E t \in Tiles : _m[t].clear_denied) => HasCompany
    /\ _random \in {0, 1}
    /\ _interactive_random = 0
    /\ FreshCache
    /\ _tick_counter = 0
    /\ _trees_tick_ctr = 0
    /\ pc = "Idle"
    /\ cmd = NoCommand
    /\ res_test = NoResult
    /\ res_exec = NoResult
    /\ ncmds = 0
    /\ ntests = 0
    /\ peer = NoPeer
    /\ SoundsAtRest

SpecLimit == InitLimit /\ [][Next]_vars

-----------------------------------------------------------------------------
(* The game loop on its own: the tile loop visits tiles of trees and       *)
(* OnTick_Trees runs, under every setting of extra_tree_placement and with *)
(* growth at full speed, slowed and frozen.  Tile 0 holds trees of any age *)
(* and number, the tiles around it are of one kind.                        *)

\* Visits of the tile loop and runs of OnTick_Trees in one run of the model.
MaxLoops == 2

LoopSettings(landscape, placer, etp, rate) ==
    [Settings(landscape, placer, TRUE) EXCEPT !.extra_tree_placement = etp,
                                              !.tree_growth_rate = rate]

\* Species and the zone they stand in: trees at home, and a subtropical
\* tree that the desert has reached.
LoopSpecies(landscape) ==
    IF landscape = "LT_TROPIC"
    THEN {<<TREE_RAINFOREST, "TROPICZONE_RAINFOREST">>, <<TREE_SUB_TROPICAL, "TROPICZONE_NORMAL">>,
          <<TREE_CACTUS, "TROPICZONE_DESERT">>, <<TREE_SUB_TROPICAL, "TROPICZONE_DESERT">>}
    ELSE {<<_tree_base_by_landscape(landscape), "TROPICZONE_NORMAL">>}

LoopTrees(landscape) ==
    {InZone(TreeTile(sz[1], count, growth, 1), sz[2]) :
        sz \in LoopSpecies(landscape), count \in {1, 2, 4}, growth \in {0, 2, 3, 5, 6}}

\* The tiles around: grass of each zone, freshly cleared grass, desert, a
\* house.
LoopNeighbours(landscape) ==
    IF landscape = "LT_TROPIC"
    THEN {GrassTile, InZone(GrassTile, "TROPICZONE_RAINFOREST"),
          InZone(GrassTile, "TROPICZONE_DESERT"), ClearTile("CLEAR_GRASS", 1),
          InZone(ClearTile("CLEAR_DESERT", 3), "TROPICZONE_DESERT"), HouseTile}
    ELSE {GrassTile, ClearTile("CLEAR_GRASS", 1), HouseTile}

LoopLayouts(landscape) ==
    {[t \in Tiles |-> IF t = 0 THEN a ELSE b] :
        a \in LoopTrees(landscape), b \in LoopNeighbours(landscape)}

\* Growth at full speed, slowed and frozen.
GrowthRates == {0, 1, 4}

\* Ticks at which tile 0 grows, and at which only the grass under it does.
LoopTickCounters == {7 * 256, 15 * 256}

InitLoop ==
    /\ _settings_game \in
           {LoopSettings("LT_TROPIC", TP_ORIGINAL, etp, rate) :
                etp \in {ETP_NO_SPREAD, ETP_SPREAD_RAINFOREST, ETP_SPREAD_ALL,
                         ETP_NO_GROWTH_NO_SPREAD},
                rate \in GrowthRates}
           \cup {LoopSettings("LT_TEMPERATE", TP_PERFECT, etp, rate) :
                     etp \in {ETP_NO_SPREAD, ETP_SPREAD_ALL}, rate \in GrowthRates}
    /\ _game_mode = "GM_NORMAL" /\ _current_company = "COMPANY_FIRST"
    /\ tree_limit = TreeLimitOf(5)
    /\ _price = Prices
    /\ _m \in LoopLayouts(_settings_game.landscape)
    /\ _random \in {0, 2, 3, 4, 6}
    /\ _interactive_random = 0
    /\ FreshCache
    /\ _tick_counter \in LoopTickCounters
    /\ _trees_tick_ctr = 0
    /\ pc = "Idle"
    /\ cmd = NoCommand
    /\ res_test = NoResult
    /\ res_exec = NoResult
    /\ ncmds = 0
    /\ ntests = 0
    /\ peer = NoPeer
    /\ SoundsAtRest

\* The game loop calls a function of the tree module: w is the world the
\* call leaves behind.
LoopStep(op, w) ==
    /\ pc = "Idle" /\ ncmds < MaxLoops
    /\ ncmds' = ncmds + 1
    /\ cmd' = op
    /\ SetWorld(w)
    /\ UNCHANGED <<Environment, pc, res_test, res_exec, ntests, peer>>

\* RunTileLoop reaches a tile of trees.
LoopTileLoop(t) ==
    /\ IsTileType(_m, t, "MP_TREES")
    /\ LoopStep(TileLoopOp(t), TileLoop_Trees(World, t))

\* CallLandscapeTick runs OnTick_Trees.
LoopOnTick == LoopStep(OnTickOp, OnTick_Trees(World))

NextLoop ==
    \/ \E t \in Tiles : LoopTileLoop(t)
    \/ LoopOnTick

SpecLoop == InitLoop /\ [][NextLoop]_vars

-----------------------------------------------------------------------------
(* The tile loop left to run for as long as it takes, in the tropic        *)
(* climate with trees spreading everywhere: trees of the forest stand in   *)
(* the desert on tile 0, with desert, grass or cacti around them.  The     *)
(* tile loop reaches every tile once in 256 ticks, "_tick_counter is       *)
(* incremented by 256 between each call" of TileLoop_Trees.                *)

DesertTrees ==
    {InZone(TreeTile(treetype, count, growth, 1), "TROPICZONE_DESERT") :
        treetype \in {TREE_RAINFOREST, TREE_SUB_TROPICAL},
        count \in {1, 2, 4}, growth \in {0, 3, 6}}

DesertNeighbours ==
    {InZone(GrassTile, "TROPICZONE_DESERT"),
     InZone(ClearTile("CLEAR_DESERT", 3), "TROPICZONE_DESERT"),
     InZone(TreeTile(TREE_CACTUS, 1, 3, 1), "TROPICZONE_DESERT")}

InitDieOff ==
    /\ _settings_game \in {LoopSettings("LT_TROPIC", TP_ORIGINAL, ETP_SPREAD_ALL, rate) :
                               rate \in {0, 1}}
    /\ _game_mode = "GM_NORMAL" /\ _current_company = "COMPANY_FIRST"
    /\ tree_limit = TreeLimitOf(5)
    /\ _price = Prices
    /\ _m \in {[t \in Tiles |-> IF t = 0 THEN a ELSE b] :
                  a \in DesertTrees, b \in DesertNeighbours}
    /\ _random \in {0, 3}
    /\ _interactive_random = 0
    /\ FreshCache
    /\ _tick_counter \in {0, 15 * 256}
    /\ _trees_tick_ctr = 0
    /\ pc = "Idle"
    /\ cmd = NoCommand
    /\ res_test = NoResult
    /\ res_exec = NoResult
    /\ ncmds = 0
    /\ ntests = 0
    /\ peer = NoPeer
    /\ SoundsAtRest

RunTileLoopOp == [id |-> "RUN_TILE_LOOP", tile |-> 0, p1 |-> 0, p2 |-> 0]

\* The tiles from t on are visited in turn; a tile that got its trees
\* earlier in the round is visited like any other.
RECURSIVE TileLoopFrom(_, _)
TileLoopFrom(w, t) ==
    IF t >= MapSize THEN w
    ELSE TileLoopFrom(IF IsTileType(w.m, t, "MP_TREES") THEN TileLoop_Trees(w, t) ELSE w, t + 1)

\* 256 ticks of the game: the tile loop has been round the map once.  Of
\* _tick_counter only bits 8 to 11 are read by the tile loop.
RunTileLoop ==
    /\ pc = "Idle"
    /\ SetWorld([TileLoopFrom(World, 0) EXCEPT !.tick_counter = (@ + 256) % (16 * 256)])
    /\ cmd' = RunTileLoopOp
    /\ UNCHANGED <<Environment, pc, res_test, res_exec, ncmds, ntests, peer>>

NextDieOff == RunTileLoop

\* What a round of the tile loop does to _tick_counter.
TicksPass == pc = "Idle" /\ _tick_counter' = (_tick_counter + 256) % (16 * 256)

\* The game loop does not stop: the ticks keep passing, and they pass with
\* a round of the tile loop only.
SpecDieOff == InitDieOff /\ [][NextDieOff]_vars /\ WF_<<_tick_counter>>(TicksPass)

-----------------------------------------------------------------------------
(* Planting and dying on every ground: all tiles of the map are of one     *)
(* kind of ground, PlantTreesOnTile puts a single tree in its last stage   *)
(* on one of them and the tile loop comes to visit it.                     *)

\* The grounds trees can be put on: grass bare to full, rough land, a coast;
\* in the arctic climate also land below the snow line, snow on grass, on
\* rough land and on fields, as thick as the height asks and thicker; in
\* the tropic climate desert and grass the desert has reached.
GroundKinds(landscape) ==
    {ClearTile("CLEAR_GRASS", d) : d \in 0..3}
        \cup {ClearTile("CLEAR_ROUGH", 3), WaterTile(TRUE, FALSE)}
        \cup CASE landscape = "LT_ARCTIC" ->
                      {[ClearTile(g, 3) EXCEPT !.z = 0] : g \in {"CLEAR_GRASS", "CLEAR_ROUGH"}}
                          \cup {SnowTile(g, d, 3) :
                                    g \in {"CLEAR_GRASS", "CLEAR_ROUGH", "CLEAR_FIELDS"},
                                    d \in {2, 3}}
                          \cup {SnowTile("CLEAR_GRASS", 3, 4)}
                [] landscape = "LT_TROPIC" ->
                      {InZone(ClearTile("CLEAR_DESERT", d), "TROPICZONE_DESERT") : d \in {1, 3}}
                          \cup {InZone(GrassTile, "TROPICZONE_DESERT"),
                                InZone(GrassTile, "TROPICZONE_RAINFOREST")}
                [] OTHER -> {}

GroundLayouts(landscape) == {[t \in Tiles |-> a] : a \in GroundKinds(landscape)}

\* Ticks at which the trees of tile 0 and of tile 1 grow.
GroundTickCounters == {15 * 256, 14 * 256}

InitGround ==
    /\ _settings_game \in
           {Settings(l, TP_ORIGINAL, TRUE) :
                l \in {"LT_TEMPERATE", "LT_ARCTIC", "LT_TROPIC", "LT_TOYLAND"}}
    /\ _game_mode = "GM_NORMAL" /\ _current_company = "COMPANY_FIRST"
    /\ tree_limit = TreeLimitOf(5)
    /\ _price = Prices
    /\ _m \in GroundLayouts(_settings_game.landscape)
    /\ _random \in {0, 3}
    /\ _interactive_random = 0
    /\ FreshCache
    /\ _tick_counter \in GroundTickCounters
    /\ _trees_tick_ctr = 0
    /\ pc = "Idle"
    /\ cmd = NoCommand
    /\ res_test = NoResult
    /\ res_exec = NoResult
    /\ ncmds = 0
    /\ ntests = 0
    /\ peer = NoPeer
    /\ SoundsAtRest

PlantTreesOnTileOp(t) == [id |-> "PLANT_TREES_ON_TILE", tile |-> t, p1 |-> 0, p2 |-> 0]

\* The species put on tile t: a cactus in the desert zone.
GroundSpecies(t) ==
    IF _settings_game.landscape = "LT_TROPIC" /\ GetTropicZone(_m, t) = "TROPICZONE_DESERT"
    THEN TREE_CACTUS
    ELSE _tree_base_by_landscape(_settings_game.landscape)

\* PlantTreesOnTile(t, species, 0, 6) on a tile that is suitable for trees.
GroundPlant(t) ==
    /\ CanPlantTreesOnTile(_m, t, TRUE)
    /\ LoopStep(PlantTreesOnTileOp(t),
                [World EXCEPT !.m = PlantTreesOnTile(@, t, GroundSpecies(t), 0, 6)])

NextGround ==
    \/ \E t \in Tiles : GroundPlant(t)
    \/ \E t \in Tiles : LoopTileLoop(t)

SpecGround == InitGround /\ [][NextGround]_vars

-----------------------------------------------------------------------------
(* DecrementTreeCounter called again and again on maps of every size: the  *)
(* scaled map size stays what it is, the count of the calls and the sum of *)
(* what they returned are kept.                                            *)

\* Calls of DecrementTreeCounter in one run of the model.
MaxCalls == 256

\* ScaleByMapSize(1) from the smallest map to the largest, and values in
\* between that no map gives.
ScaledMapSizes == {1, 2, 3, 16, 128, 255, 256, 512, 4096}

\* The call under way: p1 is the scaled map size, p2 the counter before the
\* first call.
DecrementTreeCounterOp(scaled_map_size, start) ==
    [id |-> "DECREMENT_TREE_COUNTER", tile |-> 0, p1 |-> scaled_map_size, p2 |-> start]

InitCounter ==
    /\ _settings_game = Settings("LT_TEMPERATE", TP_ORIGINAL, TRUE)
    /\ _game_mode = "GM_NORMAL" /\ _current_company = "COMPANY_FIRST"
    /\ tree_limit = TreeLimitOf(5)
    /\ _price = Prices
    /\ _m = [t \in Tiles |-> HouseTile]
    /\ _random = 0
    /\ _interactive_random = 0
    /\ FreshCache
    /\ _tick_counter = 0
    /\ _trees_tick_ctr \in 0..255
    /\ pc = "Idle"
    /\ \E scaled_map_size \in ScaledMapSizes :
           cmd = DecrementTreeCounterOp(scaled_map_size, _trees_tick_ctr)
    /\ res_test = NoResult
    /\ res_exec = NoResult
    /\ ncmds = 0
    /\ ntests = 0
    /\ peer = NoPeer
    /\ SoundsAtRest

\* One call of DecrementTreeCounter: ncmds counts the calls, ntests adds up
\* what they return.
CounterCall ==
    /\ pc = "Idle" /\ ncmds < MaxCalls
    /\ ncmds' = ncmds + 1
    /\ ntests' = ntests + DecrementTreeCounterScaled(World, cmd.p1).n
    /\ SetWorld(DecrementTreeCounterScaled(World, cmd.p1).w)
    /\ UNCHANGED <<Environment, pc, cmd, res_test, res_exec, peer>>

NextCounter == CounterCall

SpecCounter == InitCounter /\ [][NextCounter]_vars

-----------------------------------------------------------------------------
(* Properties of one submission.                                           *)

\* A plain grass tile: clear land, grass, no snow, no bridge above.
PlainGrass(m, t) ==
    /\ IsTileType(m, t, "MP_CLEAR")
    /\ GetRawClearGround(m, t) = "CLEAR_GRASS"
    /\ ~IsSnowTile(m, t)
    /\ ~IsBridgeAbove(m, t)

\* The descriptor of the planting restricted to the single tile t.
SingleTile(desc, t) == [desc EXCEPT !.tile = t, !.p2 = t]

\* C1: for every world, quota and descriptor of CmdPlantTree, the result of
\* the run without DC_EXEC equals the result of the run with DC_EXEC made
\* next on the unchanged world: same success, same money, same reason.
C1_TestExecuteEquivalence ==
    /\ pc = "Testing" /\ cmd.id = "CMD_PLANT_TREE" =>
           LET test == CmdPlantTree(World, cmd.tile, {}, cmd.p1, cmd.p2)
               exec == CmdPlantTree(test.w, cmd.tile, {DC_EXEC}, cmd.p1, cmd.p2)
           IN  exec.cost = test.cost
    /\ pc = "Done" /\ cmd.id = "CMD_PLANT_TREE" => res_exec = res_test

\* A batch with a random species was tested and executed, and both runs
\* returned the same successful cost of more than one tile.
C1_Witness ==
    /\ pc = "Done" /\ cmd.id = "CMD_PLANT_TREE"
    /\ cmd.p1 = TREE_INVALID /\ cmd.tile # cmd.p2
    /\ Succeeded(res_exec) /\ res_exec = res_test
    /\ res_exec.cost > 2 * _price.PR_BUILD_TREES

\* C2: CmdPlantTree changes the quota only under DC_EXEC: a run in test
\* mode, and a second one after it, on any batch, leave tree_limit exactly
\* as it was.
C2_QuotaUnchangedByTest ==
    pc = "Testing" /\ cmd.id = "CMD_PLANT_TREE" =>
        LET once == CmdPlantTree(World, cmd.tile, {}, cmd.p1, cmd.p2)
            twice == CmdPlantTree(once.w, cmd.tile, {}, cmd.p1, cmd.p2)
        IN  /\ once.w.tree_limit = tree_limit
            /\ twice.w.tree_limit = tree_limit

\* A company's batch passed its test run and the quota is still the 5 the
\* company started with.
C2_Witness ==
    /\ pc = "Executing" /\ cmd.id = "CMD_PLANT_TREE"
    /\ HasCompany /\ cmd.tile # cmd.p2
    /\ Succeeded(res_test) /\ res_test.cost >= 2 * _price.PR_BUILD_TREES
    /\ tree_limit = TreeLimitOf(5)

\* C3: a run of CmdPlantTree or of ClearTile_Trees without DC_EXEC leaves
\* every tile (type, species, stems, growth, ground, density, tropic zone)
\* as it was and draws nothing from the synchronized random stream.
C3_TestModeMutationFree ==
    /\ pc = "Testing" /\ cmd.id = "CMD_PLANT_TREE" =>
           LET test == CmdPlantTree(World, cmd.tile, {}, cmd.p1, cmd.p2)
           IN  test.w.m = _m /\ test.w.random = _random
    /\ \A t \in Tiles :
           IsTileType(_m, t, "MP_TREES") =>
               LET test == ClearTile_Trees(World, t, {})
               IN  test.w.m = _m /\ test.w.random = _random

\* The test run of clearing a tile of trees succeeded with a cost and the
\* trees still stand.
C3_Witness ==
    /\ pc = "Executing" /\ cmd.id = "CMD_LANDSCAPE_CLEAR"
    /\ IsTileType(_m, cmd.tile, "MP_TREES")
    /\ Succeeded(res_test) /\ res_test.cost > 0

\* C4: the handler runs in execute mode only after a test run of the same
\* descriptor succeeded; a failed test run ends the submission Rejected, and
\* a rejected submission is never executed, so that tiles and quota change
\* in no step other than the execute run.
C4_TwoPhaseOrdering ==
    [][/\ pc' = "Executing" =>
              /\ pc = "Testing" /\ cmd' = cmd
              /\ res_test' = Handler(World, cmd, {}).cost
              /\ Succeeded(res_test')
       /\ pc = "Testing" /\ Failed(res_test') => pc' = "Rejected"
       /\ pc = "Rejected" => pc' \notin {"Executing", "Done"}
       /\ pc' = "Done" => pc = "Executing" /\ cmd' = cmd
       /\ pc # "Executing" => _m' = _m /\ tree_limit' = tree_limit]_vars

\* A planting was rejected by its test run: no execute run was made and the
\* targeted tile is not a tree tile.
C4_Witness ==
    /\ pc = "Rejected" /\ cmd.id = "CMD_PLANT_TREE"
    /\ Failed(res_test) /\ res_exec = NoResult
    /\ ~IsTileType(_m, cmd.tile, "MP_TREES")

\* C7: of the N tiles of a CmdPlantTree area exactly K, 0 < K < N, can be
\* planted one by one and the quota does not bind (there is no company, or
\* its quota is at least K): the command succeeds, its
\* cost is the sum of the costs of the K tiles, the execute run changes
\* exactly those K tiles and leaves the other N - K as they were.
C7_BatchPartialSuccess ==
    pc = "Testing" /\ cmd.id = "CMD_PLANT_TREE" /\ cmd.p2 < MapSize =>
        LET ta == TileArea(cmd.tile, cmd.p2)
            single(t) == DoCommandP(World, SingleTile(cmd, t))
            feasible(t) == Succeeded(single(t).cost)
            K == Cardinality({i \in 1 .. Len(ta) : feasible(ta[i])})
            sum[i \in 0 .. Len(ta)] ==
                IF i = 0 THEN 0
                ELSE sum[i - 1] + (IF feasible(ta[i]) THEN single(ta[i]).cost.cost ELSE 0)
            batch == DoCommandP(World, cmd)
        IN  0 < K /\ K < Len(ta) /\ (~HasCompany \/ GB32(tree_limit, 16, 16) >= K) =>
                /\ Succeeded(batch.cost)
                /\ batch.cost.cost = sum[Len(ta)]
                /\ \A i \in 1 .. Len(ta) :
                       IF feasible(ta[i])
                       THEN batch.w.m[ta[i]] # _m[ta[i]]
                       ELSE batch.w.m[ta[i]] = _m[ta[i]]

\* C8: when no tile of a CmdPlantTree area can be planted, the command fails
\* with zero cost and with the reason of the first tile of the area, in
\* iteration order, that was skipped.
C8_AllFailFirstReason ==
    pc = "Testing" /\ cmd.id = "CMD_PLANT_TREE" /\ cmd.p2 < MapSize =>
        LET ta == TileArea(cmd.tile, cmd.p2)
            single(t) == CmdPlantTree(World, t, {}, cmd.p1, t).cost
            batch == CmdPlantTree(World, cmd.tile, {}, cmd.p1, cmd.p2).cost
        IN  (\A i \in 1 .. Len(ta) : Failed(single(ta[i]))) =>
                /\ Failed(batch)
                /\ batch.cost = 0
                /\ batch.message = single(ta[1]).message

\* C9: a company with a quota of 5 plants one tree on a plain grass tile
\* (single-tile area, execute mode): the command succeeds, costs exactly
\* _price[PR_BUILD_TREES] and leaves a quota of 4.
C9_QuotaExampleFirstPlanting ==
    /\ pc = "Executing" /\ cmd.id = "CMD_PLANT_TREE" /\ cmd.tile = cmd.p2
    /\ HasCompany /\ GB32(tree_limit, 16, 16) = 5
    /\ PlainGrass(_m, cmd.tile)
    => LET exec == CmdPlantTree(World, cmd.tile, {DC_EXEC}, cmd.p1, cmd.p2)
       IN  /\ Succeeded(exec.cost)
           /\ exec.cost.cost = _price.PR_BUILD_TREES
           /\ GB32(exec.w.tree_limit, 16, 16) = 4
           /\ IsTileType(exec.w.m, cmd.tile, "MP_TREES")

\* The company's single planting on grass was executed: one young tree on
\* grass ground, the price charged, 4 left of the quota.
C9_Witness ==
    /\ pc = "Done" /\ cmd.id = "CMD_PLANT_TREE" /\ cmd.tile = cmd.p2
    /\ HasCompany /\ GB32(tree_limit, 16, 16) = 4
    /\ res_exec = CommandCostOf("EXPENSES_OTHER", _price.PR_BUILD_TREES)
    /\ IsTileType(_m, cmd.tile, "MP_TREES")
    /\ GetTreeGround(_m, cmd.tile) = "TREE_GROUND_GRASS"
    /\ GetTreeCount(_m, cmd.tile) = 1 /\ GetTreeGrowth(_m, cmd.tile) = 0

-----------------------------------------------------------------------------
(* Properties of a sequence of single plantings.                           *)

\* C10: from a quota of 5, each of five successive single-tile plantings on
\* feasible tiles succeeds and takes 1 from the quota; the 6th, made with
\* the quota used up, fails with the plant-limit-reached reason and leaves
\* the tile as it was.
C10_FivePlantingsThenLimit ==
    pc \in {"Done", "Rejected"} =>
        /\ ncmds <= 5 =>
               /\ pc = "Done" /\ Succeeded(res_exec)
               /\ GB32(tree_limit, 16, 16) = 5 - ncmds
        /\ ncmds = 6 =>
               /\ pc = "Rejected"
               /\ res_test = CommandError("STR_ERROR_TREE_PLANT_LIMIT_REACHED")
               /\ GB32(tree_limit, 16, 16) = 0

-----------------------------------------------------------------------------
(* Properties of two runs side by side.                                    *)

\* The two runs agree on the tiles, the quota and the synchronized stream.
PairSameSync ==
    /\ peer.w.m = _m
    /\ peer.w.tree_limit = tree_limit
    /\ peer.w.random = _random

\* The two runs agree on everything but the interactive stream.
PairSameButInteractive == [peer.w EXCEPT !.interactive = _interactive_random] = World

\* C5: two runs that agree on the tiles, the quota and the synchronized
\* stream apply the same CmdPlantTree descriptor (random species included):
\* they agree again afterwards and return the same result, so that a whole
\* sequence of plantings leaves the same tiles, quota and results in both.
C5_PlantTreeDeterminism ==
    [][PairSameSync /\ cmd'.id = "CMD_PLANT_TREE" =>
           PairSameSync' /\ peer'.res = res_exec']_vars

\* Two plantings were executed around the snow line, the second of a random
\* species, by runs whose interactive streams differ: both runs hold the
\* same tiles and quota and returned the same successful result.
C5_Witness ==
    /\ ncmds = 2 /\ cmd.id = "CMD_PLANT_TREE" /\ cmd.p1 = TREE_INVALID
    /\ _settings_game.landscape = "LT_ARCTIC"
    /\ _game_mode = "GM_NORMAL" /\ GB32(tree_limit, 16, 16) <= 3
    /\ peer.w.interactive # _interactive_random
    /\ PairSameSync
    /\ Succeeded(res_exec) /\ peer.res = res_exec

\* C6 as stated: two runs that differ only in the interactive stream hold
\* the same tiles after every operation of the tree module.
C6_InteractiveNonInterference ==
    [][PairSameButInteractive => peer'.w.m = _m']_vars

\* C6, for the operations of the running game: after CmdPlantTree,
\* TileLoop_Trees and OnTick_Trees two runs that differed only in the
\* interactive stream still differ in nothing else.  PlaceTreeGroupAroundTile
\* draws its positions from the interactive stream.
C6_InteractiveNonInterferenceInGame ==
    [][PairSameButInteractive /\ cmd'.id # "PLACE_TREE_GROUP" =>
           PairSameButInteractive']_vars

\* OnTick_Trees planted a young tree in two runs whose interactive streams
\* differ, and the runs differ in nothing else.
C6_Witness ==
    /\ ncmds = 1 /\ cmd.id = "ON_TICK"
    /\ peer.w.interactive # _interactive_random
    /\ PairSameButInteractive
    /\ \E t \in Tiles : /\ IsTileType(_m, t, "MP_TREES")
                        /\ GetTreeCount(_m, t) = 1 /\ GetTreeGrowth(_m, t) = 0

-----------------------------------------------------------------------------
(* Properties of one planting: clearing before planting, full tiles and   *)
(* the quota.                                                              *)

\* The species asked for exists in the climate (or is left to chance).
ValidTreeType(p1) ==
    \/ GB(p1, 0, 8) = TREE_INVALID
    \/ IsInsideBS(GB(p1, 0, 8), _tree_base_by_landscape(_settings_game.landscape),
                  _tree_count_by_landscape(_settings_game.landscape))

\* C11: CmdPlantTree on a single clear tile whose ground is rocks or fields
\* (no bridge above, fitting species, quota left) runs the clear command with
\* the same flags and, when that succeeds, succeeds with the cost of clearing
\* plus _price[PR_BUILD_TREES]; under DC_EXEC the tile ends as a tree tile.
C11_ClearRocksThenPlant ==
    /\ pc = "Testing" /\ cmd.id = "CMD_PLANT_TREE" /\ cmd.tile = cmd.p2
    /\ ValidTreeType(cmd.p1)
    /\ IsTileType(_m, cmd.tile, "MP_CLEAR")
    /\ GetRawClearGround(_m, cmd.tile) \in {"CLEAR_ROCKS", "CLEAR_FIELDS"}
    /\ ~IsBridgeAbove(_m, cmd.tile)
    /\ ~PlantWrongTerrain(_m, cmd.tile, GB(cmd.p1, 0, 8))
    /\ PlantLimitPasses(PlantLoopInit(World))
    => \A flags \in {{}, {DC_EXEC}} :
           LET clear == DoCommandClear(World, cmd.tile, flags)
               plant == CmdPlantTree(World, cmd.tile, flags, cmd.p1, cmd.p2)
           IN  Succeeded(clear.cost) =>
                   /\ Succeeded(plant.cost)
                   /\ plant.cost.cost = clear.cost.cost + _price.PR_BUILD_TREES
                   /\ HasExec(flags) => IsTileType(plant.w.m, cmd.tile, "MP_TREES")

\* The tile of case MP_CLEAR that is handed to the clear command: it passed
\* the tests of lines 962-984 and its raw ground is fields or rocks.
PlantNeedsClearing(st, tile, treetype) ==
    /\ ~st.left /\ ~st.returned
    /\ IsTileType(st.w.m, tile, "MP_CLEAR")
    /\ CanPlantTreesOnTile(st.w.m, tile, FALSE) /\ ~IsBridgeAbove(st.w.m, tile)
    /\ ~PlantWrongTerrain(st.w.m, tile, treetype)
    /\ PlantLimitPasses(st)
    /\ GetRawClearGround(st.w.m, tile) \in {"CLEAR_FIELDS", "CLEAR_ROCKS"}

\* The loop state in which the i-th tile of the area is visited.
PlantLoopBefore(ta, i, flags, treetype) ==
    PlantLoop(PlantLoopInit(World), SubSeq(ta, 1, i - 1), 1, flags, treetype)

\* C12: when the clear command that CmdPlantTree runs for a tile fails, the
\* result is exactly that failure, with no cost, and the tile is not
\* planted: it is left as it was, in test and in execute mode.
C12_ClearFailureIsTheResult ==
    pc = "Testing" /\ cmd.id = "CMD_PLANT_TREE" /\ cmd.p2 < MapSize /\ ValidTreeType(cmd.p1) =>
        \A flags \in {{}, {DC_EXEC}} :
            LET ta == TileArea(cmd.tile, cmd.p2)
                plant == CmdPlantTree(World, cmd.tile, flags, cmd.p1, cmd.p2)
            IN  \A i \in 1 .. Len(ta) :
                    LET st == PlantLoopBefore(ta, i, flags, GB(cmd.p1, 0, 8))
                        clear == DoCommandClear(st.w, ta[i], flags)
                    IN  PlantNeedsClearing(st, ta[i], GB(cmd.p1, 0, 8)) /\ Failed(clear.cost) =>
                            /\ plant.cost = clear.cost
                            /\ plant.cost.cost = 0
                            /\ plant.w.m[ta[i]] = _m[ta[i]]

\* A planting on fields under snow was rejected with the failure of the
\* clear command, and the fields are still there.
C12_Witness ==
    /\ pc = "Rejected" /\ cmd.id = "CMD_PLANT_TREE"
    /\ res_test = CommandError("STR_ERROR_CAN_T_CLEAR_THIS_AREA")
    /\ \E t \in Tiles : /\ IsTileType(_m, t, "MP_CLEAR")
                        /\ GetRawClearGround(_m, t) = "CLEAR_FIELDS"
                        /\ IsSnowTile(_m, t)

\* C13: a tile of the area was planted and the clear command run for a
\* later tile fails: CmdPlantTree still succeeds, with at least the cost
\* gathered so far, and goes on to the tiles after the failing one (without
\* a quota, plain grass among them is planted by the execute run).
C13_ClearFailureKeepsEarlierSuccess ==
    pc = "Testing" /\ cmd.id = "CMD_PLANT_TREE" /\ cmd.p2 < MapSize /\ ValidTreeType(cmd.p1) =>
        \A flags \in {{}, {DC_EXEC}} :
            LET ta == TileArea(cmd.tile, cmd.p2)
                plant == CmdPlantTree(World, cmd.tile, flags, cmd.p1, cmd.p2)
            IN  \A i \in 1 .. Len(ta) :
                    LET st == PlantLoopBefore(ta, i, flags, GB(cmd.p1, 0, 8))
                        clear == DoCommandClear(st.w, ta[i], flags)
                    IN  /\ PlantNeedsClearing(st, ta[i], GB(cmd.p1, 0, 8))
                        /\ Failed(clear.cost)
                        /\ st.cost.cost > 0
                        => /\ Succeeded(plant.cost)
                           /\ plant.cost.cost >= st.cost.cost
                           /\ \A j \in i + 1 .. Len(ta) :
                                  HasExec(flags) /\ ~HasCompany /\ PlainGrass(_m, ta[j]) =>
                                      IsTileType(plant.w.m, ta[j], "MP_TREES")

\* C14: CmdPlantTree on a single tree tile with 4 stems and a growth stage
\* below 3 (quota left) succeeds, leaves the 4 stems, advances the growth
\* stage, and costs something else than adding a stem to a tree tile does.
C14_FullTileGrowsAtOtherCost ==
    /\ pc = "Testing" /\ cmd.id = "CMD_PLANT_TREE" /\ cmd.tile = cmd.p2
    /\ ValidTreeType(cmd.p1)
    /\ IsTileType(_m, cmd.tile, "MP_TREES")
    /\ GetTreeCount(_m, cmd.tile) = 4 /\ GetTreeGrowth(_m, cmd.tile) < 3
    /\ PlantLimitPasses(PlantLoopInit(World))
    => LET test == CmdPlantTree(World, cmd.tile, {}, cmd.p1, cmd.p2)
           exec == CmdPlantTree(World, cmd.tile, {DC_EXEC}, cmd.p1, cmd.p2)
           stem == PlantOnTreesApply(PlantLoopInit(World), cmd.tile, {}, FALSE)
       IN  /\ Succeeded(test.cost) /\ Succeeded(exec.cost)
           /\ GetTreeCount(exec.w.m, cmd.tile) = 4
           /\ GetTreeGrowth(exec.w.m, cmd.tile) > GetTreeGrowth(_m, cmd.tile)
           /\ exec.cost.cost # stem.cost.cost

\* The elements of a sequence.
Range(seq) == {seq[i] : i \in 1 .. Len(seq)}

\* The tile can be planted by a command of its own when the quota does not
\* stand in the way.
FeasibleAlone(t) ==
    Succeeded(CmdPlantTree([World EXCEPT !.tree_limit = U32Of(U16 - 1, 0)],
                           t, {}, cmd.p1, t).cost)

\* The test of the limit fails at the i-th tile of the area.
PlantLimitHitAt(ta, i, flags, treetype) ==
    /\ PlantLoopBefore(ta, i + 1, flags, treetype).limit
           = PlantLoopBefore(ta, i, flags, treetype).limit - 1
    /\ PlantLoopBefore(ta, i + 1, flags, treetype).limit < 1

\* C15: a company's CmdPlantTree over an area visits the tiles in the order
\* of TileArea: the tiles the execute run changes are feasible tiles and
\* form an initial run of the feasible tiles in that order, no more of them
\* than the quota; once the test of the limit failed at a tile, no later
\* tile is changed and nothing is added to the cost.
C15_QuotaHardStopInOrder ==
    pc = "Executing" /\ cmd.id = "CMD_PLANT_TREE" /\ HasCompany =>
        LET ta == TileArea(cmd.tile, cmd.p2)
            exec == CmdPlantTree(World, cmd.tile, {DC_EXEC}, cmd.p1, cmd.p2)
            changed == {i \in 1 .. Len(ta) : exec.w.m[ta[i]] # _m[ta[i]]}
        IN  /\ \A i \in changed : FeasibleAlone(ta[i])
            /\ \A i \in changed : \A j \in 1 .. i - 1 : FeasibleAlone(ta[j]) => j \in changed
            /\ Cardinality(changed) <= GB32(tree_limit, 16, 16)
            /\ \A j \in 1 .. Len(ta) :
                   PlantLimitHitAt(ta, j, {DC_EXEC}, GB(cmd.p1, 0, 8)) =>
                       /\ \A i \in j .. Len(ta) : i \notin changed
                       /\ Succeeded(exec.cost) =>
                              exec.cost.cost
                                  = PlantLoopBefore(ta, j, {DC_EXEC}, GB(cmd.p1, 0, 8)).cost.cost

\* A company with a quota of 2 planted an area: the first tile was planted
\* and charged, the quota is down to 1, and plain grass further on in the
\* area was left as it was.
C15_Witness ==
    /\ pc = "Done" /\ cmd.id = "CMD_PLANT_TREE" /\ HasCompany
    /\ GB32(tree_limit, 16, 16) = 1
    /\ Succeeded(res_exec) /\ res_exec.cost = _price.PR_BUILD_TREES
    /\ IsTileType(_m, cmd.tile, "MP_TREES")
    /\ \E t \in Range(TileArea(cmd.tile, cmd.p2)) : PlainGrass(_m, t)

-----------------------------------------------------------------------------
(* Properties of the cost accumulator.                                     *)

\* C17: in any sequence of AddCost compositions an accumulated cost that
\* carries a failure still carries a failure, with the same reason, after
\* the next composition; a success composed with a failure carries that
\* failure and its reason; two successes give a success whose money is the
\* sum of theirs.  Hence the reason reported is that of the first failure.
C17_FailureIsTerminal ==
    [][/\ Failed(res_test) =>
              Failed(res_test') /\ res_test'.message = res_test.message
       /\ Succeeded(res_test) /\ Failed(res_exec') =>
              Failed(res_test') /\ res_test'.message = res_exec'.message
       /\ Succeeded(res_test) /\ Succeeded(res_exec') =>
              /\ Succeeded(res_test')
              /\ res_test'.cost = res_test.cost + res_exec'.cost]_vars

\* Successes were summed, then a failure was composed, then a failure with
\* another reason: the accumulated cost still carries the first reason.
C17_Witness ==
    /\ pc = "Composing" /\ ncmds = MaxAdds
    /\ Failed(res_test) /\ Failed(res_exec)
    /\ res_test.message = "STR_ERROR_CAN_T_CLEAR_THIS_AREA"
    /\ res_exec.message = "STR_ERROR_SITE_UNSUITABLE"
    /\ res_test.cost = 3 * Prices.PR_BUILD_TREES

-----------------------------------------------------------------------------
(* Properties of the checks on the descriptor, of the sub-state of tree    *)
(* tiles under every operation, and of the cost of each tile.              *)

\* C18: CmdPlantTree with p2 >= MapSize(), or with a species other than
\* TREE_INVALID outside the range of the climate, returns CMD_ERROR whatever
\* the tiles are, and leaves the tiles, the quota, both random streams and
\* the caches as they were, in test mode and in execute mode.
C18_MalformedDescriptorRejected ==
    /\ pc = "Testing" /\ cmd.id = "CMD_PLANT_TREE"
    /\ (cmd.p2 >= MapSize \/ ~ValidTreeType(cmd.p1))
    => \A flags \in {{}, {DC_EXEC}} :
           LET plant == CmdPlantTree(World, cmd.tile, flags, cmd.p1, cmd.p2)
           IN  /\ plant.cost = CMD_ERROR
               /\ plant.w = World

\* A planting of a species of another climate on plain grass, within the
\* map, was rejected with CMD_ERROR and the grass is still there.
C18_Witness ==
    /\ pc = "Rejected" /\ cmd.id = "CMD_PLANT_TREE"
    /\ cmd.p2 < MapSize /\ ~ValidTreeType(cmd.p1)
    /\ res_test = CMD_ERROR
    /\ PlainGrass(_m, cmd.tile)

\* C19: after any sequence of CmdPlantTree, PlaceTreeGroupAroundTile,
\* TileLoop_Trees and OnTick_Trees every tile of trees, in either run, holds
\* 1 to 4 trees in a growth stage from 0 to 6.
C19_TreeCountAndGrowthInRange ==
    \A t \in Tiles :
        /\ IsTileType(_m, t, "MP_TREES") =>
               /\ GetTreeCount(_m, t) \in 1 .. 4
               /\ GetTreeGrowth(_m, t) \in 0 .. 6
        /\ IsTileType(peer.w.m, t, "MP_TREES") =>
               /\ GetTreeCount(peer.w.m, t) \in 1 .. 4
               /\ GetTreeGrowth(peer.w.m, t) \in 0 .. 6

\* A tile that held four dying trees was visited twice by the tile loop:
\* the trees died, one of them was removed and three grown ones are left.
C19_Witness ==
    /\ ncmds = 2 /\ cmd = TileLoopOp(0)
    /\ IsTileType(_m, 0, "MP_TREES")
    /\ GetTreeCount(_m, 0) = 3 /\ GetTreeGrowth(_m, 0) = 3
    /\ IsTileType(_m, 2, "MP_TREES")
    /\ GetTreeCount(_m, 2) = 4 /\ GetTreeGrowth(_m, 2) = 5

\* C20: the cost of a successful CmdPlantTree is the sum over the tiles of
\* its area of: _price[PR_BUILD_TREES], plus the cost of clearing where the
\* ground was cleared first, for a tile turned from clear land or coast
\* into trees; 2 * _price[PR_BUILD_TREES] for a tile of trees that gained a
\* tree or was grown; nothing for a tile left as it was.  The test run
\* reports the same cost.
C20_PerTileCost ==
    pc = "Testing" /\ cmd.id = "CMD_PLANT_TREE" /\ cmd.p2 < MapSize =>
        LET ta == TileArea(cmd.tile, cmd.p2)
            test == CmdPlantTree(World, cmd.tile, {}, cmd.p1, cmd.p2)
            exec == CmdPlantTree(World, cmd.tile, {DC_EXEC}, cmd.p1, cmd.p2)
            cleared(t) == /\ IsTileType(_m, t, "MP_CLEAR")
                          /\ GetRawClearGround(_m, t) \in {"CLEAR_FIELDS", "CLEAR_ROCKS"}
            share(t) ==
                IF exec.w.m[t] = _m[t] THEN 0
                ELSE IF IsTileType(_m, t, "MP_TREES") THEN 2 * _price.PR_BUILD_TREES
                ELSE _price.PR_BUILD_TREES
                     + (IF cleared(t) THEN DoCommandClear(World, t, {}).cost.cost ELSE 0)
            sum[i \in 0 .. Len(ta)] == IF i = 0 THEN 0 ELSE sum[i - 1] + share(ta[i])
        IN  Succeeded(exec.cost) =>
                /\ exec.cost.cost = sum[Len(ta)]
                /\ test.cost.cost = sum[Len(ta)]
                /\ \A i \in 1 .. Len(ta) :
                       exec.w.m[ta[i]] # _m[ta[i]] => IsTileType(exec.w.m, ta[i], "MP_TREES")

\* A planting over trees and over fields under snow was executed: twice the
\* price for the tree added, and the price plus the cost of clearing the
\* fields for the new tile of trees.
C20_Witness ==
    /\ pc = "Done" /\ cmd.id = "CMD_PLANT_TREE" /\ Succeeded(res_exec)
    /\ Len(TileArea(cmd.tile, cmd.p2)) = 2
    /\ res_exec.cost = 2 * _price.PR_BUILD_TREES
                       + _price.PR_BUILD_TREES + _price.PR_CLEAR_FIELDS
    /\ \A t \in Range(TileArea(cmd.tile, cmd.p2)) : IsTileType(_m, t, "MP_TREES")

-----------------------------------------------------------------------------
(* Properties of the command traits.                                       *)

\* C16: a submission of CMD_LEVEL_LAND, which is flagged CMD_NO_TEST, is
\* tested at most once, and exactly once by the time it is executed or
\* rejected; the test is never repeated before the execute run.
\* CMD_TERRAFORM_LAND carries no such flag and may be tested again.
C16_NoTestCommandTestedOnce ==
    /\ "CMD_NO_TEST" \in GetCommandFlags("CMD_LEVEL_LAND")
    /\ "CMD_NO_TEST" \notin GetCommandFlags("CMD_TERRAFORM_LAND")
    /\ cmd.id = "CMD_LEVEL_LAND" =>
           /\ ntests <= 1
           /\ pc \in {"Executing", "Done", "Rejected"} => ntests = 1

\* A submission of CMD_LEVEL_LAND on a tile of trees was executed after
\* one test run, and the trees are gone.
C16_Witness ==
    /\ pc = "Done" /\ cmd.id = "CMD_LEVEL_LAND"
    /\ ntests = 1
    /\ Succeeded(res_test) /\ Succeeded(res_exec)
    /\ IsTileType(_m, cmd.tile, "MP_CLEAR")

\* A submission of CMD_TERRAFORM_LAND was executed after more than one
\* test run.
C16_TerraformTestedAgain ==
    /\ pc = "Done" /\ cmd.id = "CMD_TERRAFORM_LAND"
    /\ ntests > 1
    /\ Succeeded(res_exec)

-----------------------------------------------------------------------------
(* Properties of the quota at its edges, of a failed execute run and of    *)
(* the species planted in the tropic climate.                              *)

\* The tile is changed by a planting of its own, in execute mode, when the
\* quota does not stand in the way.
PlantableAlone(t) ==
    CmdPlantTree([World EXCEPT !.tree_limit = U32Of(U16 - 1, 0)],
                 t, {DC_EXEC}, cmd.p1, t).w.m[t] # _m[t]

\* The positions of the area the execute run of the submitted planting
\* changes.
PlantedTiles(ta) ==
    {i \in 1 .. Len(ta) :
        CmdPlantTree(World, cmd.tile, {DC_EXEC}, cmd.p1, cmd.p2).w.m[ta[i]] # _m[ta[i]]}

\* C21: a tile of a company's CmdPlantTree passes the test of the quota
\* only while the allowance, counted down from the upper 16 bits of
\* tree_limit, is 1 or more after the decrement; a company with a quota
\* q >= 1 plants exactly min(q - 1, number of feasible tiles) tiles of the
\* area, and a company with a quota of 1 or 0 plants none.
C21_QuotaThreshold ==
    /\ pc = "Testing" /\ cmd.id = "CMD_PLANT_TREE" /\ cmd.p2 < MapSize
    /\ ValidTreeType(cmd.p1) /\ HasCompany
    => LET ta == TileArea(cmd.tile, cmd.p2)
           q == GB32(tree_limit, 16, 16)
           feasible == {i \in 1 .. Len(ta) : PlantableAlone(ta[i])}
       IN  /\ \A i \in PlantedTiles(ta) :
                  PlantLoopBefore(ta, i + 1, {DC_EXEC}, GB(cmd.p1, 0, 8)).limit >= 1
           /\ q >= 1 => Cardinality(PlantedTiles(ta)) = Min(q - 1, Cardinality(feasible))
           /\ q <= 1 => PlantedTiles(ta) = {}

\* C22: an execute run of CmdPlantTree for a company in the game takes from
\* the upper 16 bits of tree_limit exactly the number of tiles it changes
\* and leaves the lower 16 bits as they were; the upper 16 bits never pass
\* below zero, whatever the quota was.
C22_QuotaAccounting ==
    pc = "Testing" /\ cmd.id = "CMD_PLANT_TREE" /\ HasCompany =>
        LET exec == CmdPlantTree(World, cmd.tile, {DC_EXEC}, cmd.p1, cmd.p2)
            changed == {t \in Tiles : exec.w.m[t] # _m[t]}
        IN  /\ GB32(tree_limit, 16, 16) - GB32(exec.w.tree_limit, 16, 16) = Cardinality(changed)
            /\ Cardinality(changed) <= GB32(tree_limit, 16, 16)
            /\ GB32(exec.w.tree_limit, 0, 16) = GB32(tree_limit, 0, 16)

\* A company with a full quota planted an area of two tiles: both hold
\* trees and the quota went down by 2, the lower bits untouched.
C22_Witness ==
    /\ pc = "Done" /\ cmd.id = "CMD_PLANT_TREE" /\ HasCompany
    /\ Len(TileArea(cmd.tile, cmd.p2)) = 2
    /\ \A t \in Range(TileArea(cmd.tile, cmd.p2)) : IsTileType(_m, t, "MP_TREES")
    /\ tree_limit = U32Of(U16 - 3, TreeLimitFraction)

\* C23: an execute run of CmdPlantTree that returns a failure, under any
\* price table (a build-tree price of zero included), has changed no tile
\* and has taken nothing from the quota.
C23_FailureImpliesNoMutation ==
    pc = "Testing" /\ cmd.id = "CMD_PLANT_TREE" =>
        LET exec == CmdPlantTree(World, cmd.tile, {DC_EXEC}, cmd.p1, cmd.p2)
        IN  Failed(exec.cost) => exec.w.m = _m /\ exec.w.tree_limit = tree_limit

SpeciesFitsZone(treetype, zone) ==
    /\ treetype # TREE_INVALID
    /\ IsInsideBS(treetype, _tree_base_by_landscape("LT_TROPIC"),
                  _tree_count_by_landscape("LT_TROPIC"))
    /\ treetype = TREE_CACTUS => zone = "TROPICZONE_DESERT"
    /\ IsInsideMM(treetype, TREE_RAINFOREST, TREE_CACTUS) => zone = "TROPICZONE_RAINFOREST"
    /\ IsInsideMM(treetype, TREE_SUB_TROPICAL, TREE_TOYLAND) => zone = "TROPICZONE_NORMAL"

\* C25: in the tropic climate every tile that an execute run of CmdPlantTree
\* turns into trees, of a given or of a random species, holds a species of
\* the climate, never TREE_INVALID: a cactus only in the desert zone, a
\* subtropical tree only in the normal zone, a rainforest tree only in the
\* rainforest zone or, in the editor, on a tile that is rainforest from then
\* on.  A tile of trees keeps its species when a tree is added.  So every
\* tile of trees fits its zone before and after the command.
C25_TropicSpeciesPlacement ==
    _settings_game.landscape = "LT_TROPIC" =>
        /\ \A t \in Tiles :
               IsTileType(_m, t, "MP_TREES") =>
                   SpeciesFitsZone(GetTreeType(_m, t), GetTropicZone(_m, t))
        /\ pc = "Testing" /\ cmd.id = "CMD_PLANT_TREE" =>
               LET exec == CmdPlantTree(World, cmd.tile, {DC_EXEC}, cmd.p1, cmd.p2)
               IN  \A t \in Tiles :
                       IF IsTileType(_m, t, "MP_TREES")
                       THEN /\ IsTileType(exec.w.m, t, "MP_TREES")
                            /\ GetTreeType(exec.w.m, t) = GetTreeType(_m, t)
                            /\ GetTropicZone(exec.w.m, t) = GetTropicZone(_m, t)
                       ELSE IsTileType(exec.w.m, t, "MP_TREES") =>
                                /\ SpeciesFitsZone(GetTreeType(exec.w.m, t),
                                                   GetTropicZone(exec.w.m, t))
                                /\ \/ GetTropicZone(exec.w.m, t) = GetTropicZone(_m, t)
                                   \/ /\ _game_mode = "GM_EDITOR"
                                      /\ IsInsideMM(GetTreeType(exec.w.m, t),
                                                    TREE_RAINFOREST, TREE_CACTUS)

\* A planting of a random species on grass in the desert zone was executed
\* after a draw that gives no species there: a young cactus stands on it.
C25_Witness ==
    /\ pc = "Done" /\ cmd.id = "CMD_PLANT_TREE" /\ cmd.p1 = TREE_INVALID
    /\ _settings_game.landscape = "LT_TROPIC"
    /\ cmd.tile = cmd.p2 /\ _random = 2
    /\ IsTileType(_m, cmd.tile, "MP_TREES")
    /\ GetTropicZone(_m, cmd.tile) = "TROPICZONE_DESERT"
    /\ GetTreeType(_m, cmd.tile) = TREE_CACTUS
    /\ GetTreeCount(_m, cmd.tile) = 1 /\ GetTreeGrowth(_m, cmd.tile) = 0

-----------------------------------------------------------------------------
(* Properties of the tile loop and of OnTick_Trees under the settings of   *)
(* extra_tree_placement.                                                   *)

\* The step is a visit of the tile loop.
IsTileLoopStep == cmd'.id = "TILE_LOOP" /\ ncmds' = ncmds + 1

\* The stage and the number of trees of tile t move from <<g, c>> to
\* <<g2, c2>> along a transition of the switch of TileLoop_Trees.
GrowthTransition(g, c, g2, c2) ==
    \/ g2 = g /\ c2 = c
    \/ g \in {0, 1, 2, 4, 5} /\ g2 = g + 1 /\ c2 = c
    \/ g = 3 /\ g2 = 4 /\ c2 = c
    \/ g = 3 /\ g2 = 0 /\ c2 = c + 1
    \/ g = 6 /\ g2 = 0 /\ c2 = c
    \/ g = 6 /\ g2 = 3 /\ c2 = c - 1

\* C26: a visit of the tile loop moves the growth stage of the visited tile
\* only from g to g + 1 for g in {0, 1, 2, 4, 5}; from 3 to 4, or to 0 with
\* one tree more, or not at all; from 6 to 0 with as many trees, or to 3 with
\* one tree less, or the tile stops being a tile of trees, and that only
\* when it had exactly one tree.
C26_GrowthTransitions ==
    [][IsTileLoopStep =>
           LET t == cmd'.tile
           IN  IF IsTileType(_m', t, "MP_TREES")
               THEN GrowthTransition(GetTreeGrowth(_m, t), GetTreeCount(_m, t),
                                     GetTreeGrowth(_m', t), GetTreeCount(_m', t))
               ELSE GetTreeGrowth(_m, t) = 6 /\ GetTreeCount(_m, t) = 1]_vars

\* The tile loop has visited tile 0 twice: the first visit added a tree to
\* the grown tile, the second one made the young trees grow.
C26_Witness ==
    /\ cmd = TileLoopOp(0) /\ ncmds = 2
    /\ IsTileType(_m, 0, "MP_TREES")
    /\ GetTreeGrowth(_m, 0) = 1 /\ GetTreeCount(_m, 0) = 3

\* The step is a run of OnTick_Trees.
IsOnTickStep == cmd'.id = "ON_TICK" /\ ncmds' = ncmds + 1

\* The tiles that the step turns into tiles of trees.
ConvertedTiles ==
    {t \in Tiles : ~IsTileType(_m, t, "MP_TREES") /\ IsTileType(_m', t, "MP_TREES")}

\* The visit of tile t falls on the cycle in which its trees grow, and
\* growth runs at full speed.
GrowthDue(t) ==
    /\ ((t % 31) + (_tick_counter \div 256)) % 16 = 15
    /\ _settings_game.tree_growth_rate = 0

\* C27: with extra_tree_placement = ETP_NO_SPREAD no visit of the tile loop
\* and no run of OnTick_Trees turns a tile without trees into a tile of
\* trees, and the trees of a visited tile still grow: a due visit moves a
\* stage in {0, 1, 2, 4, 5} to the next one.
C27_NoSpread ==
    [][_settings_game.extra_tree_placement = ETP_NO_SPREAD =>
           /\ IsTileLoopStep \/ IsOnTickStep => ConvertedTiles = {}
           /\ IsTileLoopStep /\ GrowthDue(cmd'.tile)
                  /\ GetTreeGrowth(_m, cmd'.tile) \in {0, 1, 2, 4, 5} =>
                  GetTreeGrowth(_m', cmd'.tile) = GetTreeGrowth(_m, cmd'.tile) + 1]_vars

\* Under ETP_NO_SPREAD the tile loop made the young trees of tile 0 grow
\* and OnTick_Trees ran: the grass around them is still grass.
C27_Witness ==
    /\ _settings_game.extra_tree_placement = ETP_NO_SPREAD
    /\ cmd = OnTickOp /\ ncmds = 2
    /\ IsTileType(_m, 0, "MP_TREES") /\ GetTreeGrowth(_m, 0) = 1
    /\ \A t \in Tiles \ {0} : CanPlantTreesOnTile(_m, t, FALSE)

\* C28: with extra_tree_placement = ETP_SPREAD_RAINFOREST every tile that a
\* visit of the tile loop or a run of OnTick_Trees turns from a tile without
\* trees into a tile of trees lies in the rainforest zone.
C28_RainforestOnly ==
    [][_settings_game.extra_tree_placement = ETP_SPREAD_RAINFOREST
           /\ (IsTileLoopStep \/ IsOnTickStep) =>
           \A t \in ConvertedTiles : GetTropicZone(_m', t) = "TROPICZONE_RAINFOREST"]_vars

\* C30: a visit of the tile loop to a tile for which CanPlantExtraTrees is
\* false never takes a tree from the tile and never turns it into a tile
\* without trees; when the visit reaches the last stage of destruction (6)
\* the growth is set back to 0 and the trees stay as they are.
C30_DeforestationGuard ==
    [][IsTileLoopStep /\ ~CanPlantExtraTrees(_m, cmd'.tile) =>
           LET t == cmd'.tile
           IN  /\ IsTileType(_m', t, "MP_TREES")
               /\ GetTreeCount(_m', t) >= GetTreeCount(_m, t)
               /\ GetTreeGrowth(_m, t) = 6 =>
                      /\ GetTreeCount(_m', t) = GetTreeCount(_m, t)
                      /\ GetTreeGrowth(_m', t) \in {0, 6}
                      /\ GrowthDue(t)
                             /\ _settings_game.extra_tree_placement # ETP_NO_GROWTH_NO_SPREAD =>
                             GetTreeGrowth(_m', t) = 0]_vars

\* With spreading to rainforests only, the tile loop has visited the last
\* tree of a tile in the normal zone on its cycle of growth: the tree that
\* was dying starts anew.
C30_Witness ==
    /\ _settings_game.extra_tree_placement = ETP_SPREAD_RAINFOREST
    /\ cmd = TileLoopOp(0) /\ ncmds = 1
    /\ GetTropicZone(_m, 0) = "TROPICZONE_NORMAL"
    /\ IsTileType(_m, 0, "MP_TREES")
    /\ GetTreeCount(_m, 0) = 1 /\ GetTreeGrowth(_m, 0) = 0
    /\ _tick_counter = 15 * 256 /\ _settings_game.tree_growth_rate = 0

\* Trees other than cacti stand on tile t in the desert.
ForestInDesert(t) ==
    /\ IsTileType(_m, t, "MP_TREES")
    /\ GetTropicZone(_m, t) = "TROPICZONE_DESERT"
    /\ GetTreeType(_m, t) # TREE_CACTUS

\* A visit of the tile loop to the grown trees of tile t leaves them one
\* stage older when their growth is due, and as old as they were when it is
\* not; it adds no tree to the tile and changes no other tile.
AgesInDesert(t) ==
    LET after == TileLoop_Trees(World, t).m
    IN  /\ IsTileType(after, t, "MP_TREES")
        /\ GetTreeCount(after, t) = GetTreeCount(_m, t)
        /\ GetTreeGrowth(after, t) \in {3, 4}
        /\ GrowthDue(t) => GetTreeGrowth(after, t) = 4
        /\ \A t2 \in Tiles \ {t} : after[t2] = _m[t2]

\* C29: in the tropic climate with ETP_SPREAD_ALL and growth not frozen,
\* trees other than cacti that stand in the desert at growth stage 3 always
\* move on to stage 4, never gain a tree and never spread, and while the
\* tile loop keeps coming round the tile stops being a tile of trees.
C29_DesertDieOff ==
    /\ [](\A t \in Tiles : ForestInDesert(t) /\ GetTreeGrowth(_m, t) = 3 => AgesInDesert(t))
    /\ \A t \in Tiles : ForestInDesert(t) ~> ~IsTileType(_m, t, "MP_TREES")

\* The tile loop has been round the map: where the trees stood on tile 0
\* there is bare desert.
C29_Witness ==
    /\ cmd = RunTileLoopOp
    /\ IsTileType(_m, 0, "MP_CLEAR")
    /\ GetClearGround(_m, 0) = "CLEAR_DESERT"
    /\ GetTropicZone(_m, 0) = "TROPICZONE_DESERT"

-----------------------------------------------------------------------------
(* The removal of all trees from the scenario editor's menu.                *)

ClearDescriptor(tile) == [id |-> "CMD_LANDSCAPE_CLEAR", tile |-> tile, p1 |-> 0, p2 |-> 0]

\* The loops of RemoveAllTrees stop after the first tile of trees.
RECURSIVE RemoveAllTreesOnce(_, _)
RemoveAllTreesOnce(w, k) ==
    IF k >= MapSize THEN w
    ELSE LET tile == TileXY(k \div MapSizeY, k % MapSizeY)
         IN  IF GetTileType(w.m, tile) = "MP_TREES"
             THEN DoCommandP(w, ClearDescriptor(tile)).w
             ELSE RemoveAllTreesOnce(w, k + 1)

\* The loops of RemoveAllTrees from their k-th round on: i = k / MapSizeY()
\* and j = k % MapSizeY(); each tile of trees gets a clear-land command.
RECURSIVE RemoveAllTreesFrom(_, _)
RemoveAllTreesFrom(w, k) ==
    IF k >= MapSize THEN w
    ELSE LET tile == TileXY(k \div MapSizeY, k % MapSizeY)
         IN  RemoveAllTreesFrom(IF GetTileType(w.m, tile) = "MP_TREES"
                                THEN DoCommandP(w, ClearDescriptor(tile)).w
                                ELSE w,
                                k + 1)

\* RemoveAllTrees()
RemoveAllTrees(w) ==
    IF _game_mode # "GM_EDITOR" THEN w ELSE RemoveAllTreesFrom(w, 0)

RemoveAllTreesOp == [id |-> "REMOVE_ALL_TREES", tile |-> 0, p1 |-> 0, p2 |-> 0]

\* The menu entry is chosen.
RemoveStep == LoopStep(RemoveAllTreesOp, RemoveAllTrees(World))

\* Trees grow and spread between two uses of the menu entry.
NextRemove ==
    \/ RemoveStep
    \/ \E t \in Tiles : LoopTileLoop(t)

InitRemove == InitWith(AllSettings, AllModes, Layouts, {0, 3})

SpecRemove == InitRemove /\ [][NextRemove]_vars

-----------------------------------------------------------------------------
(* The sound module at work.  The trees stay as they are.                   *)

TreesAtRest ==
    /\ _settings_game = Settings("LT_TEMPERATE", TP_ORIGINAL, TRUE)
    /\ _game_mode = "GM_NORMAL" /\ _current_company = "COMPANY_FIRST"
    /\ tree_limit = TreeLimitOf(5)
    /\ _price = Prices
    /\ _m = [t \in Tiles |-> GrassTile]
    /\ _random = 0
    /\ _interactive_random = 0
    /\ FreshCache
    /\ _tick_counter = 0
    /\ _trees_tick_ctr = 0
    /\ pc = "Idle"
    /\ cmd = NoCommand
    /\ res_test = NoResult
    /\ res_exec = NoResult
    /\ ncmds = 0
    /\ ntests = 0
    /\ peer = NoPeer

tree_vars == <<_settings_game, _game_mode, _current_company, _price, _m, tree_limit,
               _random, _interactive_random, _previous_trees_around_snow_line_range,
               _arctic_tree_occurance, _tick_counter, _trees_tick_ctr,
               pc, cmd, res_test, res_exec, ncmds, ntests, peer>>

\* The pool after InitializeSoundPool; no GRF file is loaded yet.
InitSounds ==
    /\ TreesAtRest
    /\ _sounds = InitializeSoundPool
    /\ grf_files = <<>>
    /\ played = NoSound
    /\ load = NoLoad

\* The pool has room for num more slots.
PoolHasRoom(num) == Len(_sounds) + num <= ORIGINAL_SAMPLE_COUNT + MaxSounds

\* The loading of a GRF file comes to its num sounds: the file notes the
\* size of the pool as its sound_offset and gets its slots from
\* AllocateSound.
GRFSound(num) ==
    /\ Len(grf_files) < MaxGRFFiles /\ PoolHasRoom(num)
    /\ grf_files' = Append(grf_files, [sound_offset |-> GetNumSounds(_sounds),
                                       num_sounds |-> num])
    /\ _sounds' = AllocateSound(_sounds, num).sounds
    /\ UNCHANGED <<tree_vars, played, load>>

\* Some other caller of AllocateSound.
AllocateMore(num) ==
    /\ PoolHasRoom(num)
    /\ _sounds' = AllocateSound(_sounds, num).sounds
    /\ UNCHANGED <<tree_vars, grf_files, played, load>>

\* The ids asked for: sounds of the original game, the first ids of a GRF
\* file, the last ids of all.
SoundIDs ==
    {0, ORIGINAL_SAMPLE_COUNT - 1} \cup (ORIGINAL_SAMPLE_COUNT .. (ORIGINAL_SAMPLE_COUNT + 3))
        \cup {INVALID_SOUND - 1, INVALID_SOUND}

\* Pointers to the GRF files loaded, and the null pointer.
GRFFilePointers == 0 .. Len(grf_files)

PlayTileSoundStep(file, sound_id) ==
    /\ played' = PlayTileSound(_sounds, grf_files, file, sound_id)
    /\ UNCHANGED <<tree_vars, _sounds, grf_files, load>>

PlayVehicleSoundStep(enabled, file, uses_callback, callback) ==
    /\ played' = PlayVehicleSound(_sounds, grf_files, enabled, file, uses_callback, callback)
    /\ UNCHANGED <<tree_vars, _sounds, grf_files, load>>

NextSounds ==
    \/ \E num \in 0 .. 2 : GRFSound(num)
    \/ \E num \in 1 .. 2 : AllocateMore(num)
    \/ \E file \in GRFFilePointers, sound_id \in SoundIDs : PlayTileSoundStep(file, sound_id)
    \/ \E enabled, uses_callback \in BOOLEAN, file \in GRFFilePointers, callback \in SoundIDs :
           PlayVehicleSoundStep(enabled, file, uses_callback, callback)

SpecSounds == InitSounds /\ [][NextSounds]_vars

-----------------------------------------------------------------------------
(* LoadNewGRFSound reading sounds, one round of its loop after the other.   *)

\* The entries handed to LoadNewGRFSound: of either container version,
\* without a file, without data.
LoadEntries ==
    {[SoundEntry EXCEPT !.file = 1, !.grf_container_ver = v] : v \in {1, 2}}
        \cup {[SoundEntry EXCEPT !.grf_container_ver = 2],
              [SoundEntry EXCEPT !.file = 1, !.file_offset = SIZE_MAX]}

\* The sizes declared: none, less than a chunk header, one header, a 'data'
\* chunk of 4 bytes, a 'fmt ' chunk of 16 bytes, that and a 'data' chunk of
\* 4 bytes, and the largest.
TotalSizes == {ToU32(n) : n \in {0, 4, 8, 12, 24, 36, MaxTotalSize}}

\* A sprite as it should be, declaring total_size.
SoundSprite(total_size) ==
    [num |-> 100, ff1 |-> TRUE, ff2 |-> TRUE, name_len |-> 3, terminated |-> TRUE,
     riff |-> TRUE, total_size |-> total_size, wave |-> TRUE]

\* Sprites as they should be and sprites with one thing wrong; a sprite of
\* 50 bytes is too short for container version 2 only.
Sprites ==
    {SoundSprite(ts) : ts \in TotalSizes}
        \cup {[SoundSprite(ToU32(36)) EXCEPT !.ff1 = FALSE],
              [SoundSprite(ToU32(36)) EXCEPT !.ff2 = FALSE],
              [SoundSprite(ToU32(36)) EXCEPT !.terminated = FALSE],
              [SoundSprite(ToU32(36)) EXCEPT !.riff = FALSE],
              [SoundSprite(ToU32(36)) EXCEPT !.wave = FALSE],
              [SoundSprite(ToU32(36)) EXCEPT !.num = 50],
              [SoundSprite(ToU32(36)) EXCEPT !.num = 40]}

\* The sizes a chunk header claims, 0x80000000 and 0xFFFFFFFF among them.
ChunkSizes ==
    {ToU32(n) : n \in {0, 4, 12, 16, 20, 28}} \cup {U32Of(32768, 0), U32Of(65535, 65535)}

\* What the file holds where a chunk is read: 'fmt ' chunks of PCM and of
\* another format, 'data' chunks, chunks of another kind.
Chunks ==
    [tag : {"fmt "}, size : ChunkSizes, format : {1, 2}, channels : {1, 2},
     rate : {11025}, bits_per_sample : {8, 16}]
        \cup [tag : {"data", "LIST"}, size : ChunkSizes, format : {0}, channels : {0},
              rate : {0}, bits_per_sample : {0}]

InitLoad == InitSounds

\* LoadNewGRFSound is called and runs up to its loop.
LoadBegin ==
    /\ load.pc = "Idle"
    /\ \E sound \in LoadEntries, sprite \in Sprites :
           load' = LoadNewGRFSoundHeader(sound, sprite)
    /\ UNCHANGED <<tree_vars, _sounds, grf_files, played>>

\* One round of the loop.
LoadChunk ==
    /\ load.pc = "Loop" /\ ~U32Less(load.total_size, ToU32(8))
    /\ \E chunk \in Chunks : load' = LoadNewGRFSoundChunk(load, chunk)
    /\ UNCHANGED <<tree_vars, _sounds, grf_files, played>>

\* The loop is left.
LoadEnd ==
    /\ load.pc = "Loop" /\ U32Less(load.total_size, ToU32(8))
    /\ load' = LoadNewGRFSoundEnd(load)
    /\ UNCHANGED <<tree_vars, _sounds, grf_files, played>>

\* The caller has the result.
LoadDone ==
    /\ load.pc = "Returned"
    /\ load' = NoLoad
    /\ UNCHANGED <<tree_vars, _sounds, grf_files, played>>

NextLoad == LoadBegin \/ LoadChunk \/ LoadEnd \/ LoadDone

\* A call of LoadNewGRFSound that has reached its loop runs on.
LoadRuns ==
    /\ load.pc = "Loop"
    /\ load' \in IF U32Less(load.total_size, ToU32(8))
                 THEN {LoadNewGRFSoundEnd(load)}
                 ELSE {LoadNewGRFSoundChunk(load, chunk) : chunk \in Chunks}

SpecLoad == InitLoad /\ [][NextLoad]_vars /\ WF_<<load>>(LoadRuns)

-----------------------------------------------------------------------------
(* The table of the arctic climate for every range the setting can take.    *)

\* uint8 trees_around_snow_line_range
ArcticRanges == 0 .. 255

\* Tiles at the snow line, one level above it and three levels above it.
ArcticHeights == {SnowLineHeight, SnowLineHeight + 1, SnowLineHeight + 3}

InitArctic ==
    /\ _settings_game \in
           {[Settings("LT_ARCTIC", TP_ORIGINAL, TRUE)
                 EXCEPT !.trees_around_snow_line_range = range] : range \in ArcticRanges}
    /\ _game_mode = "GM_NORMAL" /\ _current_company = "COMPANY_FIRST"
    /\ tree_limit = TreeLimitOf(5)
    /\ _price = Prices
    /\ _m \in {[t \in Tiles |-> SnowTile("CLEAR_GRASS", 3, z)] : z \in ArcticHeights}
    /\ _random = 0
    /\ _interactive_random = 0
    /\ FreshCache
    /\ _tick_counter = 0
    /\ _trees_tick_ctr = 0
    /\ pc = "Idle"
    /\ cmd = NoCommand
    /\ res_test = NoResult
    /\ res_exec = NoResult
    /\ ncmds = 0
    /\ ntests = 0
    /\ peer = NoPeer
    /\ SoundsAtRest

RecalculateOp == [id |-> "RECALCULATE_ARCTIC", tile |-> 0, p1 |-> 0, p2 |-> 0]
MaxTreeCountOp(t) == [id |-> "MAX_TREE_COUNT", tile |-> t, p1 |-> 0, p2 |-> 0]

\* RecalculateArcticTreeOccuranceArray is called.
RecalculateStep == LoopStep(RecalculateOp, RecalculateArcticTreeOccuranceArray(World))

\* MaxTreeCount is called for a tile; ntests takes what it returns.
MaxTreeCountStep(t) ==
    /\ pc = "Idle" /\ ncmds < MaxLoops
    /\ ncmds' = ncmds + 1
    /\ cmd' = MaxTreeCountOp(t)
    /\ SetWorld(MaxTreeCount(World, t).w)
    /\ ntests' = MaxTreeCount(World, t).n
    /\ UNCHANGED <<Environment, pc, res_test, res_exec, peer>>

NextArctic ==
    \/ RecalculateStep
    \/ \E t \in Tiles : MaxTreeCountStep(t)

SpecArctic == InitArctic /\ [][NextArctic]_vars

-----------------------------------------------------------------------------
(* Properties of the ground under trees, of the tree tick counter, of      *)
(* groups of trees, of the removal of all trees and of clearing.           *)

\* The ground of a tile as the code reads it.
GroundOf(m, t) ==
    [type |-> GetTileType(m, t),
     ground |-> IF IsTileType(m, t, "MP_CLEAR") THEN GetClearGround(m, t) ELSE "NONE",
     rough |-> IsTileType(m, t, "MP_CLEAR") /\ GetRawClearGround(m, t) = "CLEAR_ROUGH",
     density |-> IF IsTileType(m, t, "MP_CLEAR") THEN GetClearDensity(m, t) ELSE 0,
     coast |-> IsCoast(m, t)]

\* The tree ground that matches the ground of tile t.
MatchingTreeGround(m, t) ==
    CASE IsTileType(m, t, "MP_WATER") -> "TREE_GROUND_SHORE"
      [] IsSnowTile(m, t) /\ GetRawClearGround(m, t) = "CLEAR_ROUGH" -> "TREE_GROUND_ROUGH_SNOW"
      [] IsSnowTile(m, t) \/ GetRawClearGround(m, t) = "CLEAR_DESERT" -> "TREE_GROUND_SNOW_DESERT"
      [] GetRawClearGround(m, t) = "CLEAR_ROUGH" -> "TREE_GROUND_ROUGH"
      [] OTHER -> "TREE_GROUND_GRASS"

\* The tile loop has no ground update for trees put on tile t: the visit in
\* which young trees on it grow leaves their ground and its density alone.
GroundSettled(t) ==
    LET planted == PlantTreesOnTile(_m, t, GroundSpecies(t), 0, 0)
        visited == TileLoop_Trees([World EXCEPT !.m = planted,
                                                !.tick_counter = ((15 + 16 - t) % 16) * 256], t).m
    IN  /\ GetTreeGround(visited, t) = GetTreeGround(planted, t)
        /\ GetTreeDensity(visited, t) = GetTreeDensity(planted, t)

C32_TreeCounterRate ==
    /\ [][ntests' - ntests = IF cmd.p1 >= 256 THEN cmd.p1 \div 256
                             ELSE IF _trees_tick_ctr < cmd.p1 THEN 1 ELSE 0]_vars
    /\ [](cmd.p1 >= 256 => _trees_tick_ctr = cmd.p2)
    /\ [](cmd.p1 < 256 /\ ncmds = 256 => ntests = cmd.p1 /\ _trees_tick_ctr = cmd.p2)

\* On a map with a scaled map size of 3 the counter started at 100 and has
\* been decremented 256 times: three calls returned 1.
C32_Witness ==
    /\ cmd = DecrementTreeCounterOp(3, 100)
    /\ ncmds = 256 /\ ntests = 3 /\ _trees_tick_ctr = 100

\* The trees that stand on tile t.
StemsOn(m, t) == IF IsTileType(m, t, "MP_TREES") THEN GetTreeCount(m, t) ELSE 0

RECURSIVE StemsFrom(_, _)
StemsFrom(m, t) == IF t >= MapSize THEN 0 ELSE StemsOn(m, t) + StemsFrom(m, t + 1)

\* A call of PlaceTreeGroupAroundTile around tile with the given radius led
\* from map before to map after and returned planted: it returned the number
\* of trees the map gained, no more than it was to place, and changed tiles
\* only at offsets in [-radius, radius) from the tile on either axis.
PlacedGroup(before, after, planted, tile, radius) ==
    /\ planted = StemsFrom(after, 0) - StemsFrom(before, 0)
    /\ planted <= GroupCount
    /\ \A t \in Tiles :
           after[t] # before[t] =>
               /\ TileX(t) - TileX(tile) \in (-radius) .. (radius - 1)
               /\ TileY(t) - TileY(tile) \in (-radius) .. (radius - 1)

\* C33: PlaceTreeGroupAroundTile returns the number of trees it has added
\* over the whole map, which is at most count, and every tile it changes
\* lies at offsets within [-radius, radius) of the centre tile on both axes.
C33_PlaceTreeGroupResult ==
    [][cmd'.id = "PLACE_TREE_GROUP" /\ ncmds' = ncmds + 1 =>
           /\ PlacedGroup(_m, _m', res_exec', cmd'.tile, cmd'.p2)
           /\ PlacedGroup(peer.w.m, peer'.w.m, peer'.res, cmd'.tile, cmd'.p2)]_vars

\* The editor has placed a group of trees around tile 0 with radius 1: in
\* one run both tries fell off the map, in the other run one of them put a
\* tree on tile 0.
C33_Witness ==
    /\ cmd.id = "PLACE_TREE_GROUP" /\ cmd.tile = 0 /\ cmd.p2 = 1
    /\ ncmds = 1 /\ res_exec = 0 /\ peer.res = 1
    /\ StemsOn(peer.w.m, 0) > StemsOn(_m, 0)


\* No tile of the map holds trees.
NoTreesLeft(m) == \A t \in Tiles : ~IsTileType(m, t, "MP_TREES")

IsRemoveStep == cmd'.id = "REMOVE_ALL_TREES" /\ ncmds' = ncmds + 1

TreeClearingCost(m, t) ==
    (m[t].m5 \div 64 + 1) * _price.PR_CLEAR_TREES
        * (IF m[t].treetype \in TREE_RAINFOREST .. (TREE_CACTUS - 1) THEN 4 ELSE 1)

\* C35: ClearTile_Trees succeeds with the cost stems * _price[PR_CLEAR_TREES],
\* times 4 for a rainforest species, with and without DC_EXEC alike; only
\* with DC_EXEC does the tile stop holding trees, no other tile changing;
\* TerraformTile_Trees returns what the clear-land command returns for the
\* tile; and under the dispatcher the execute run of clearing returns the
\* cost of the test run.
C35_ClearingCost ==
    /\ \A t \in Tiles :
           IsTileType(_m, t, "MP_TREES") =>
               LET test == ClearTile_Trees(World, t, {})
                   exec == ClearTile_Trees(World, t, {DC_EXEC})
               IN  /\ test.cost = CommandCostOf("EXPENSES_CONSTRUCTION",
                                                TreeClearingCost(_m, t))
                   /\ exec.cost = test.cost
                   /\ test.w = World
                   /\ ~IsTileType(exec.w.m, t, "MP_TREES")
                   /\ \A u \in Tiles \ {t} : exec.w.m[u] = _m[u]
                   /\ \A flags \in {{}, {DC_EXEC}} :
                          TerraformTile_Trees(World, t, flags)
                              = CmdLandscapeClear(World, t, flags)
    /\ pc = "Executing" /\ cmd.id = "CMD_LANDSCAPE_CLEAR"
           /\ IsTileType(_m, cmd.tile, "MP_TREES") =>
           res_test.cost = TreeClearingCost(_m, cmd.tile)
    /\ pc = "Done" /\ cmd.id = "CMD_LANDSCAPE_CLEAR" => res_exec = res_test

\* Two stems of rainforest trees have been cleared for eight times the price
\* of one tree; the tile is bare land.
C35_Witness ==
    /\ pc = "Done" /\ cmd.id = "CMD_LANDSCAPE_CLEAR"
    /\ res_test.cost = 8 * _price.PR_CLEAR_TREES
    /\ res_exec.success /\ res_exec.cost = 8 * _price.PR_CLEAR_TREES
    /\ _m[cmd.tile] = DoClearSquare(_m, cmd.tile)[cmd.tile]
    /\ _m[cmd.tile].tropic = "TROPICZONE_RAINFOREST"


-----------------------------------------------------------------------------
(* Properties of the sound module.                                          *)

\* Every id that is translated to a sound lies in the pool.
TranslatedInPool(file, sound_id) ==
    GetNewGRFSoundID(grf_files, file, sound_id) # INVALID_SOUND =>
        /\ GetNewGRFSoundID(grf_files, file, sound_id) < GetNumSounds(_sounds)
        /\ GetSound(_sounds, GetNewGRFSoundID(grf_files, file, sound_id)) # NullPointer

\* C36 as stated: every id that GetNewGRFSoundID translates to a sound is
\* below GetNumSounds() and GetSound has an entry for it, the assertions of
\* PlayTileSound and PlayVehicleSound hold, and an id at or beyond the
\* num_sounds of the file, or any id with a null file, is translated to
\* INVALID_SOUND.
C36_SoundIdInPool ==
    /\ played.asserted
    /\ \A file \in GRFFilePointers, sound_id \in SoundIDs :
           /\ TranslatedInPool(file, sound_id)
           /\ (file = NullPointer \/ sound_id >= grf_files[file].num_sounds) =>
                  GetNewGRFSoundID(grf_files, file, sound_id) = INVALID_SOUND

\* C36: every id that GetNewGRFSoundID translates to a sound is below
\* GetNumSounds() and GetSound has an entry for it, and the assertions of
\* PlayTileSound and PlayVehicleSound hold; an id below
\* ORIGINAL_SAMPLE_COUNT is translated to itself whatever the file, an id
\* from ORIGINAL_SAMPLE_COUNT on is translated to INVALID_SOUND with a null
\* file or when it lies num_sounds or more above ORIGINAL_SAMPLE_COUNT.
C36_GRFSoundIdInPool ==
    /\ played.asserted
    /\ \A file \in GRFFilePointers, sound_id \in SoundIDs :
           /\ TranslatedInPool(file, sound_id)
           /\ sound_id < ORIGINAL_SAMPLE_COUNT =>
                  GetNewGRFSoundID(grf_files, file, sound_id) = sound_id
           /\ sound_id >= ORIGINAL_SAMPLE_COUNT
                  /\ (\/ file = NullPointer
                      \/ sound_id - ORIGINAL_SAMPLE_COUNT >= grf_files[file].num_sounds) =>
                  GetNewGRFSoundID(grf_files, file, sound_id) = INVALID_SOUND

\* The second sound of the second GRF file has been played on a tile after
\* the pool had grown further.
C36_Witness ==
    /\ Len(grf_files) = 2 /\ grf_files[2].num_sounds = 2
    /\ grf_files[2].sound_offset > ORIGINAL_SAMPLE_COUNT
    /\ played.fn = "PlayTileSound" /\ played.fx = grf_files[2].sound_offset + 1
    /\ played.asserted
    /\ GetNumSounds(_sounds) > grf_files[2].sound_offset + 2

\* C37: LoadNewGRFSound returns true only after a 'fmt ' chunk of PCM format
\* has been read, so that channels, rate and bits_per_sample of the entry
\* hold what the file says.
C37_FmtBeforeData ==
    load.pc = "Returned" /\ load.ret =>
        /\ load.sound.channels \in {1, 2}
        /\ load.sound.rate = 11025
        /\ load.sound.bits_per_sample \in {8, 16}

\* C38: the loop of LoadNewGRFSound makes no more rounds than the declared
\* size holds chunk headers of 8 bytes, the remaining size never exceeds
\* the declared size (it does not wrap around below zero), a chunk that
\* claims more bytes than remain makes the function return false, and a
\* call that has reached the loop returns.
C38_ChunkScanTerminates ==
    /\ [](/\ ~U32Less(load.declared, load.total_size)
          /\ ~U32Less(U32Sub(load.declared, load.total_size), ToU32(8 * load.n)))
    /\ [][load.pc = "Loop" /\ load'.n = load.n + 1
              /\ U32Less(U32Sub(load.total_size, ToU32(8)), load'.size) =>
              load'.pc = "Returned" /\ ~load'.ret]_vars
    /\ (load.pc = "Loop" ~> load.pc = "Returned")

\* A file that declares 44 bytes has been read in five rounds, as many as
\* 44 / 8, and held no sound data; and the chunk of the fifth round claimed
\* nothing.
C38_Witness ==
    /\ load.pc = "Returned" /\ ~load.ret
    /\ load.declared = ToU32(MaxTotalSize) /\ load.n = MaxTotalSize \div 8
    /\ load.total_size = ToU32(4)


-----------------------------------------------------------------------------
(* Properties of the table of the arctic climate.                           *)

\* x of round i of the loop, before it is made unsigned.
ArcticX(i, range) == 256 - (128 * i) \div range

\* floor(x^4 / 2^16) and floor(floor(x^4 / 2^16) * x^2 / 2^24) for x below
\* 256, computed from the bytes of x^2 so that no value is cut.
ArcticFourth(x) ==
    ((x * x) \div 256) * ((x * x) \div 256)
        + (2 * ((x * x) \div 256) * ((x * x) % 256) * 256
               + ((x * x) % 256) * ((x * x) % 256)) \div U16
ArcticSixthHigh(x) ==
    ((ArcticFourth(x) * x) \div U16) * x + (((ArcticFourth(x) * x) % U16) * x) \div U16

\* Round i of the loop for the range keeps every value within 32 bits: x is
\* not negative, x^4 is below 2^32 and so is floor(x^4 / 2^16) * x^2.
ArcticRoundFits(i, range) ==
    /\ ArcticX(i, range) >= 0
    /\ ArcticX(i, range) * ArcticX(i, range) < U16
    /\ ArcticSixthHigh(ArcticX(i, range)) < U16

\* The table and the range it was computed for.
ArcticTableSound(table, range) ==
    /\ Len(table) >= 2
    /\ \A i \in 1 .. Min(255, Len(table)) : ArcticRoundFits(i, range)
    /\ \A i \in 1 .. (Len(table) - 1) :
           /\ table[i + 1] = ArcticSixthHigh(ArcticX(i, range)) \div 256
           /\ table[i + 1] <= table[i]

\* A step in which RecalculateArcticTreeOccuranceArray ran: called itself,
\* or by MaxTreeCount because the setting differed from the range cached.
IsArcticStep ==
    /\ ncmds' = ncmds + 1
    /\ \/ cmd'.id = "RECALCULATE_ARCTIC"
       \/ /\ cmd'.id = "MAX_TREE_COUNT"
          /\ _settings_game.trees_around_snow_line_range
                 # _previous_trees_around_snow_line_range

\* C39: for every range from 1 to 255 the table that
\* RecalculateArcticTreeOccuranceArray leaves holds an entry for distance 1,
\* every round of its loop keeps all its values within 32 bits, every entry
\* is the product ((x^4 >> 16) * x^2) >> 24 for x = 256 - 128 * i / range,
\* and no entry is larger than the entry before it.
C39_ArcticTableArithmetic ==
    [][IsArcticStep /\ _settings_game.trees_around_snow_line_range >= 1 =>
           ArcticTableSound(_arctic_tree_occurance',
                            _settings_game.trees_around_snow_line_range)]_vars

====
